---- MODULE Spec2Model ----
(***************************************************************************)
(* hopeit.engine: the AppEngine runtime (server/engine.py) and the Redis   *)
(* Streams binding (redis_streams/__init__.py).                            *)
(*                                                                         *)
(* Twelve specifications share the module:                                 *)
(*   Spec        the lifecycle of one AppEngine: read_stream calls, the    *)
(*               per-event token (_running), stop_event and stop;          *)
(*   SpecLoops   read_stream and service_loop calls on one event, in       *)
(*               production and in test mode, with stop_event;             *)
(*   SpecConfig  one call of _config_effective_events;                     *)
(*   SpecStream  one read_stream loop against a broker: read cycles,       *)
(*               per-message tasks with timeout, acknowledgement;          *)
(*   SpecExec    one execute / _execute_event invocation: batching,        *)
(*               flushes, outbound fan-out, response timeout.              *)
(*   SpecDelay   the randomised start-up delay of read_stream and          *)
(*               service_loop;                                             *)
(*   SpecBreaker the stream circuit breaker as AppEngine.start builds it;  *)
(*   SpecArgs    one call of replace_config_args (server/config.py);       *)
(*   SpecEnv     one call of replace_env_vars (server/config.py);          *)
(*   SpecServer  Server.start_app calls on one Server;                     *)
(*   SpecService the contexts service_loop runs hand to execute;           *)
(*   SpecStopEvent read_stream and stop_event calls, the outcome of each   *)
(*               stop_event call recorded.                                 *)
(* SpecStreamFair is SpecStream under weak fairness of its steps.          *)
(* asyncio is single-threaded and cooperative: an action is the code that  *)
(* runs between two suspension points (awaits that really suspend).        *)
(***************************************************************************)
EXTENDS Integers, Sequences, FiniteSets, TLC

\* ------------------------------------------------------------------ bounds
MaxCalls == 2
MaxMsgs == 2
MaxBatch == 2
MaxYield == 3
MaxStages == 2
MaxDelay == 6
MaxAttempts == 6
MaxFields == 3
MaxText == 2
MaxStarts == 3
MaxRuns == 2
MaxPayloads == 3
MaxClock == 2

\* -------------------------------------------------------- program constants
read_stream_timeout == 1000
GraceMs == 5000
Passes == 2

AUTO == "AUTO"

\* STREAM effective events of the application (keys of AppEngine._running)
Events == {"e1", "e2"}
Calls == 1..MaxCalls
\* read_stream.queues of every STREAM event of the modelled application
ReadQueues == <<AUTO, "hp">>
NQ == Len(ReadQueues)
\* read_stream.name and read_stream.consumer_group of the event read in SpecStream
read_stream_name == "s"
consumer_group == "g1"
\* messages the producers append to the streams of that event
\* app_config.events, in the order of the dictionary; the groups an event
\* can name and the groups a server can be started with
DeclaredEvents == <<"a", "b">>
DEFAULT_GROUP == "DEFAULT"
Groups == {DEFAULT_GROUP, "g1", "g2"}
EventTypes == {"POST", "STREAM"}
Msgs == 1..MaxMsgs
\* type names of the entries in the streams; the event's datatypes
MsgTypes == {"A", "UNKNOWN"}
Datatypes == {"A"}
\* users in the auth_info of the messages
Users == {"u1", "u2"}
None == 0

Range(s) == {s[i] : i \in 1..Len(s)}

VARIABLES
    \* ---- Spec: AppEngine lifecycle
    stream_manager,   \* "none" | "open" | "closed": self.stream_manager
    running,          \* self._running: event -> token held (Lock.locked())
    has_datatypes,    \* event -> _find_stream_datatype_handlers finds a datatype
    callee,           \* call -> "read_stream" | "service_loop", "none" before it is made
    test_mode,        \* call -> its test_mode argument
    pc,               \* call -> position
    ev,               \* call -> event_name
    qi,               \* read_stream call -> index of the queue being ensured / read
    batchAny,         \* read_stream call -> the current cycle's batch is not empty
    issued,           \* history: read_stream call -> it has issued a broker operation
    last_result,      \* service_loop call -> the local variable last_result
    outcome,          \* call -> how the call ended
    stop_event_outcome, \* the last stop_event call: <<event, how it ended, parity of the call>>
    ensured,          \* history: read_stream call -> indexes of the queues whose
                      \*   ensure_consumer_group has succeeded
    stopSeen,         \* history: stop_event released the token during this call's cycle
    cycleAfterStop,   \* history: this call began a cycle after stopSeen
    stopDuringExec,   \* history: the token was released while this call awaited execute
    execAfterStop,    \* history: this call invoked execute after stopDuringExec
    stopPc,           \* position of AppEngine.stop()
    runningAtStop,    \* history: events whose token was held when stop() was called
    stopReleased,     \* history: events whose token stop() released
    sleptMs,          \* history: milliseconds stop() has slept before close
    connsStopped,     \* stop_app_connections has run
    \* ---- settings shared by SpecStream and SpecExec
    batch_size,       \* context.settings.stream.batch_size
    \* ---- SpecStream: the broker
    produced,         \* number of messages appended so far (ids 1..produced)
    msgStream,        \* message -> index in ReadQueues of its stream, 0 before it exists
    msgType,          \* message -> the type field of the entry, "none" before it exists
    msgAuth,          \* message -> the auth_info field of the entry, "none" before it exists
    lastDelivered,    \* queue index -> last id the consumer group was delivered
    pending,          \* the consumer's pending list: delivered, not acknowledged
    deliveries,       \* history: message -> times a read returned it
    \* ---- SpecStream: the read_stream loop and its message tasks
    spc,              \* "read" | "gather": where _read_stream_cycle is suspended
    sq,               \* index of the queue whose read is in flight
    cycBatch,         \* messages of the current cycle, in read order
    cycReads,         \* history: the read_stream calls issued in the current cycle
    cycGot,           \* history: the events each completed read of the cycle returned
    tpc,              \* message -> position of its _process_stream_event task
    tout,             \* message -> outcome of _process_stream_event_with_timeout
    failedAt,         \* history: message -> step in progress when it failed
    taskStream,       \* message -> stream_name its task was created with
    acks,             \* history: message -> ack_read_stream calls issued for it
    type_errors,      \* history: messages a read returned as a TypeError entry
    stat_errors,      \* stats: number of stats.inc(error=True)
    ctx,              \* message -> <<>> or <<the EventContext created for it>>
    last_context,     \* the local last_context of the cycle: a message, 0 for None
    wmeta,            \* message -> <<>> or <<track_ids and auth_info of the writes
                      \*   its task is awaiting>>
    \* ---- SpecExec: one invocation of _execute_event
    via,              \* "execute" (request, service) | "stream" (_process_stream_event)
    write_stream,     \* event_info.write_stream: <<>> (None) or <<descriptor>>
    msg_queue,        \* stream_event.queue: the label inside the consumed message
    consumed_queue,   \* the queue whose stream the message was read from
    queue,            \* the upstream queue passed to _execute_event
    epc,              \* "pull" | "flush" | "done" | "failed" | "cancelled"
    final,            \* the flush in flight is the one after the handler ended
    yielded,          \* history: the values pulled from the handler, in order
    result,           \* the local variable result
    batch,            \* the local list batch
    wq,               \* _write_stream of batch[i]: queue index in flight,
                      \*   Len(queues) + 1 when it has returned, 0 when it was ended
    writes,           \* history: stream_manager.write_stream calls, in issue order
    flushes,          \* history: number of _write_stream_batch calls
    caller,           \* "waiting" | "returned" | "raised" | "TimeoutError" | "acked"
    retval,           \* the value returned to the caller
    \* ---- SpecConfig: one call of _config_effective_events
    app_events,       \* app_config.events: declared event -> its descriptor
    enabled_groups,   \* the enabled_groups argument
    effective_events, \* the dictionary being built, as a set of entries
    cfg_i,            \* index in DeclaredEvents of the next event of the loop
    \* ---- SpecDelay: the start-up delay of read_stream and service_loop
    delay_auto_start_seconds,  \* app_config.server.streams.delay_auto_start_seconds
    dcallee,          \* "read_stream" | "service_loop"
    dpc,              \* "start" | "sleep" | "started"
    draws,            \* history: the two results of random.randint, in call order
    wait,             \* the local variable wait
    \* ---- SpecBreaker: the circuit breaker around the Stream Manager
    streams,          \* app_config.server.streams
    cb,               \* the arguments AppEngine.start constructs the breaker with
    failure_count,    \* the breaker's count of consecutive failures
    backoff,          \* the breaker's current back-off, in seconds
    bpc,              \* "ready" | "calling": a call is past its sleep
    attempts,         \* history: per call, the seconds slept and the outcome
    \* ---- SpecArgs: one call of replace_config_args
    parsed_config,    \* string field (by its dotted path) -> its value
    given,            \* history: parsed_config as it was passed in
    visit_order,      \* the order in which a pass visits the fields
    apass,            \* the pass in progress, Passes + 1 when the call has returned
    avisit,           \* index in visit_order of the next field of the pass
    \* ---- SpecEnv: one call of replace_env_vars
    config_json,      \* the text passed to replace_env_vars
    environ,          \* os.environ: variable name -> value, EnvNone when not set
    env_matches,      \* the matches env_re.finditer has still to yield
    env_result,       \* result
    env_pc,           \* "idle", "scan", "returned" or "AssertionError"
    \* ---- SpecServer: start_app calls on one Server
    app_engines,      \* Server.app_engines: app_key -> the plugins its AppEngine was built with
    scall,            \* per start_app call: position and app_config
    \* ---- SpecService: the contexts of service_loop runs
    svc_pc,           \* service_loop run -> "idle", "loop" or "done"
    svc_context,      \* service_loop run -> track_ids of the local variable context
    svc_invocations,  \* history: run -> track_ids of the contexts passed to execute
    uuid_count,       \* number of uuid.uuid4() values drawn so far
    utc_now           \* datetime.now(tz=timezone.utc)

\* the variables of the calls, of the histories, and of stop()
callVars == <<callee, test_mode, pc, ev, qi, batchAny, issued, last_result, outcome>>
histVars == <<stopSeen, stopDuringExec, execAfterStop>>
stopVars == <<stopPc, runningAtStop, stopReleased, sleptMs, connsStopped>>

lifeVars == <<stream_manager, running, has_datatypes, callVars, cycleAfterStop,
              histVars, stopVars, ensured, stop_event_outcome>>

\* the reads of the current cycle
cycVars == <<cycReads, cycGot>>

\* the auth_info of the messages, the contexts and what the writes carry
trackVars == <<msgAuth, ctx, last_context, wmeta>>

streamVars == <<produced, msgStream, msgType, lastDelivered, pending, deliveries,
                spc, sq, cycBatch, tpc, tout, failedAt, taskStream, acks,
                type_errors, stat_errors, trackVars, cycVars>>

execVars == <<via, write_stream, msg_queue, consumed_queue, queue, epc, final, yielded, result, batch, wq,
              writes, flushes, caller, retval>>

configVars == <<app_events, enabled_groups, effective_events, cfg_i>>

delayVars == <<delay_auto_start_seconds, dcallee, dpc, draws, wait>>

breakerVars == <<streams, cb, failure_count, backoff, bpc, attempts>>

argsVars == <<parsed_config, given, visit_order, apass, avisit>>

envVars == <<config_json, environ, env_matches, env_result, env_pc>>

serverVars == <<app_engines, scall>>

serviceVars == <<svc_pc, svc_context, svc_invocations, uuid_count, utc_now>>

vars == <<lifeVars, batch_size, streamVars, execVars, configVars, delayVars,
          breakerVars, argsVars,
    envVars,
    serverVars,
    serviceVars>>

notEnv == <<lifeVars, batch_size, streamVars, execVars, configVars,
    delayVars, breakerVars, argsVars,
    serverVars,
    serviceVars>>
notServer == <<lifeVars, batch_size, streamVars, execVars, configVars,
    delayVars, breakerVars, argsVars, envVars,
    serviceVars>>
notService == <<lifeVars, batch_size, streamVars, execVars, configVars,
    delayVars, breakerVars, argsVars, envVars, serverVars>>
notLife == <<batch_size, streamVars, execVars, configVars, delayVars, breakerVars,
    argsVars,
    envVars,
    serverVars,
    serviceVars>>
notStream == <<lifeVars, execVars, configVars, delayVars, breakerVars,
    argsVars,
    envVars,
    serverVars,
    serviceVars>>
notExec == <<lifeVars, streamVars, configVars, delayVars, breakerVars,
    argsVars,
    envVars,
    serverVars,
    serviceVars>>
notConfig == <<lifeVars, batch_size, streamVars, execVars, delayVars, breakerVars,
    argsVars,
    envVars,
    serverVars,
    serviceVars>>
notDelay == <<lifeVars, batch_size, streamVars, execVars, configVars, breakerVars,
    argsVars,
    envVars,
    serverVars,
    serviceVars>>
notArgs == <<lifeVars, batch_size, streamVars, execVars, configVars, delayVars,
    breakerVars,
    envVars,
    serverVars,
    serviceVars>>
notBreaker == <<lifeVars, batch_size, streamVars, execVars, configVars, delayVars,
    argsVars,
    envVars,
    serverVars,
    serviceVars>>

\* The variables of the other specifications, at rest.
StreamIdle ==
    /\ produced = 0
    /\ msgStream = [m \in Msgs |-> 0]
    /\ msgType = [m \in Msgs |-> "none"]
    /\ lastDelivered = [q \in 1..NQ |-> 0]
    /\ pending = {}
    /\ deliveries = [m \in Msgs |-> 0]
    /\ spc = "idle"
    /\ sq = 0
    /\ cycBatch = <<>>
    /\ cycReads = <<>>
    /\ cycGot = <<>>
    /\ tpc = [m \in Msgs |-> "none"]
    /\ tout = [m \in Msgs |-> "none"]
    /\ failedAt = [m \in Msgs |-> "none"]
    /\ taskStream = [m \in Msgs |-> <<>>]
    /\ acks = [m \in Msgs |-> <<>>]
    /\ type_errors = {}
    /\ stat_errors = 0
    /\ msgAuth = [m \in Msgs |-> "none"]
    /\ ctx = [m \in Msgs |-> <<>>]
    /\ last_context = 0
    /\ wmeta = [m \in Msgs |-> <<>>]

ConfigIdle ==
    /\ app_events = [d \in Range(DeclaredEvents) |->
                       [group |-> DEFAULT_GROUP, type |-> "POST",
                        service |-> FALSE, stages |-> 1]]
    /\ enabled_groups = {}
    /\ effective_events = {}
    /\ cfg_i = 0

EnvIdle ==
    /\ config_json = <<>>
    /\ environ = <<>>
    /\ env_matches = <<>>
    /\ env_result = <<>>
    /\ env_pc = "idle"

ServerIdle ==
    /\ app_engines = <<>>
    /\ scall = <<>>

ServiceIdle ==
    /\ svc_pc = <<>>
    /\ svc_context = <<>>
    /\ svc_invocations = <<>>
    /\ uuid_count = 0
    /\ utc_now = 0

ArgsIdle ==
    /\ parsed_config = <<>>
    /\ given = <<>>
    /\ visit_order = <<>>
    /\ apass = 0
    /\ avisit = 0

\* server.streams as in the default StreamsConfig
BreakerIdle ==
    /\ streams = [initial_backoff_seconds |-> 1, max_backoff_seconds |-> 60,
                  num_failures_open_circuit_breaker |-> 1]
    /\ cb = streams
    /\ failure_count = 0
    /\ backoff = 0
    /\ bpc = "idle"
    /\ attempts = <<>>

DelayIdle ==
    /\ delay_auto_start_seconds = 0
    /\ dcallee = "read_stream"
    /\ dpc = "idle"
    /\ draws = <<>>
    /\ wait = 0

ExecIdle ==
    /\ via = "execute"
    /\ write_stream = <<>>
    /\ msg_queue = AUTO
    /\ consumed_queue = AUTO
    /\ queue = AUTO
    /\ epc = "idle"
    /\ final = FALSE
    /\ yielded = <<>>
    /\ result = None
    /\ batch = <<>>
    /\ wq = <<>>
    /\ writes = <<>>
    /\ flushes = 0
    /\ caller = "idle"
    /\ retval = None

\* ============================================================== Spec
\* A read_stream call holds position in the driver loop from the acquire
\* to its return.
InLoop(c) == pc[c] \in {"ensure", "read", "gather"}
InCycle(c) == pc[c] \in {"read", "gather"}

\* A service_loop call between its acquire and its return.
InService(c) == pc[c] \in {"sdelay", "gen", "exec"}

LifeInit ==
    /\ stream_manager \in {"none", "open"}
    /\ running = [e \in Events |-> FALSE]
    /\ has_datatypes \in [Events -> BOOLEAN]
    /\ callee = [c \in Calls |-> "none"]
    /\ test_mode = [c \in Calls |-> FALSE]
    /\ pc = [c \in Calls |-> "idle"]
    /\ ev = [c \in Calls |-> "e1"]
    /\ qi = [c \in Calls |-> 0]
    /\ batchAny = [c \in Calls |-> FALSE]
    /\ issued = [c \in Calls |-> FALSE]
    /\ last_result = [c \in Calls |-> "None"]
    /\ outcome = [c \in Calls |-> "none"]
    /\ ensured = [c \in Calls |-> {}]
    /\ stop_event_outcome = <<>>
    /\ stopSeen = [c \in Calls |-> FALSE]
    /\ cycleAfterStop = [c \in Calls |-> FALSE]
    /\ stopDuringExec = [c \in Calls |-> FALSE]
    /\ execAfterStop = [c \in Calls |-> FALSE]
    /\ stopPc = "idle"
    /\ runningAtStop = {}
    /\ stopReleased = {}
    /\ sleptMs = 0
    /\ connsStopped = FALSE

\* A release that clears every token.
ReleaseAll(tokens, e) == [x \in DOMAIN tokens |-> FALSE]

\* The release of stop_event, as a function on the tokens.
Release(tokens, e) == [tokens EXCEPT ![e] = FALSE]

\* The call c ends: it returns, or an exception leaves it.
Ends(c, how) ==
    /\ pc' = [pc EXCEPT ![c] = "done"]
    /\ qi' = [qi EXCEPT ![c] = 0]
    /\ batchAny' = [batchAny EXCEPT ![c] = FALSE]
    /\ outcome' = [outcome EXCEPT ![c] = how]
    /\ UNCHANGED <<cycleAfterStop, issued>>

\* The loop condition and what follows it, shared by every place where the
\* code of read_stream reaches `while self._running[event_name].locked()`
\* of the main loop (engine.py 485): another cycle (the first read is
\* issued) or the return.
MainLoop(c, lockedNow) ==
    IF lockedNow
    THEN /\ pc' = [pc EXCEPT ![c] = "read"]
         /\ qi' = [qi EXCEPT ![c] = 1]
         /\ batchAny' = [batchAny EXCEPT ![c] = FALSE]
         /\ cycleAfterStop' = [cycleAfterStop EXCEPT ![c] = @ \/ stopSeen[c]]
         /\ issued' = [issued EXCEPT ![c] = TRUE]
         /\ outcome' = outcome
    ELSE Ends(c, "returned")

\* `for queue in stream_info.queues: while locked: ensure_consumer_group`
\* from queue i on: the next ensure_consumer_group is issued, or, the
\* queues exhausted or the token released, _find_stream_datatype_handlers
\* runs (its NotImplementedError is returned as the result, the token left
\* as it is) and the main loop is reached.
EnsureFrom(c, i, lockedNow) ==
    IF lockedNow /\ i <= Len(ReadQueues)
    THEN /\ pc' = [pc EXCEPT ![c] = "ensure"]
         /\ qi' = [qi EXCEPT ![c] = i]
         /\ issued' = [issued EXCEPT ![c] = TRUE]
         /\ UNCHANGED <<batchAny, cycleAfterStop, outcome>>
    ELSE IF has_datatypes[ev[c]]
         THEN MainLoop(c, lockedNow)
         ELSE Ends(c, "NotImplementedError")

\* Calls are numbered in the order in which they are made.
NextCall(c) == pc[c] = "idle" /\ \A d \in Calls : d < c => pc[d] # "idle"

\* read_stream(event_name, test_mode): up to the start-up sleep.
ReadStream(c, e, tm) ==
    /\ NextCall(c)
    /\ pc' = [pc EXCEPT ![c] = "delay"]
    /\ ev' = [ev EXCEPT ![c] = e]
    /\ callee' = [callee EXCEPT ![c] = "read_stream"]
    /\ test_mode' = [test_mode EXCEPT ![c] = tm]
    /\ UNCHANGED <<notLife, ensured, stop_event_outcome, has_datatypes, stream_manager, running, qi, batchAny,
                   issued, last_result, outcome, cycleAfterStop, histVars,
                   stopVars>>

\* read_stream that acquires without looking at the token.
AcquireNoAssert(c) ==
    /\ pc[c] = "delay"
    /\ IF stream_manager = "none"
       THEN /\ Ends(c, "AssertionError")
            /\ running' = running
       ELSE /\ running' = [running EXCEPT ![ev[c]] = TRUE]
            /\ EnsureFrom(c, 1, TRUE)
    /\ UNCHANGED <<notLife, ensured, stop_event_outcome, has_datatypes, stream_manager, callee, test_mode, ev,
                   last_result, histVars, stopVars>>

\* After the sleep: the assertions, the acquire and the first
\* ensure_consumer_group. An assertion failure is returned as the result.
Acquire(c) ==
    /\ pc[c] = "delay"
    /\ IF stream_manager = "none" \/ running[ev[c]]
       THEN /\ Ends(c, "AssertionError")
            /\ running' = running
       ELSE /\ running' = [running EXCEPT ![ev[c]] = TRUE]
            /\ EnsureFrom(c, 1, TRUE)
    /\ UNCHANGED <<notLife, ensured, stop_event_outcome, has_datatypes, stream_manager, callee, test_mode, ev,
                   last_result, histVars, stopVars>>

\* ensure_consumer_group returns: break, next queue.
EnsureOk(c) ==
    /\ pc[c] = "ensure"
    /\ EnsureFrom(c, qi[c] + 1, running[ev[c]])
    /\ ensured' = [ensured EXCEPT ![c] = @ \cup {qi[c]}]
    /\ UNCHANGED <<notLife, stop_event_outcome, has_datatypes, stream_manager, running, callee, test_mode,
                   ev, last_result, histVars, stopVars>>

\* ensure_consumer_group raises StreamOSError and the loop gives the queue
\* up: the next queue is ensured.
EnsureFailSkips(c) ==
    /\ pc[c] = "ensure"
    /\ EnsureFrom(c, qi[c] + 1, running[ev[c]])
    /\ UNCHANGED <<notLife, ensured, stop_event_outcome, has_datatypes, stream_manager, running, callee, test_mode,
                   ev, last_result, histVars, stopVars>>

\* ensure_consumer_group raises StreamOSError: pass, the while retries.
EnsureFail(c) ==
    /\ pc[c] = "ensure"
    /\ EnsureFrom(c, IF running[ev[c]] THEN qi[c] ELSE qi[c] + 1, running[ev[c]])
    /\ UNCHANGED <<notLife, ensured, stop_event_outcome, has_datatypes, stream_manager, running, callee, test_mode,
                   ev, last_result, histVars, stopVars>>

\* The end of _read_stream_cycle and the loop condition that follows it. In
\* test mode the token is released first; Lock.release() of a token that is
\* not held raises RuntimeError, which leaves read_stream.
CycleEnd(c) ==
    IF test_mode[c]
    THEN IF running[ev[c]]
         THEN /\ running' = Release(running, ev[c])
              /\ MainLoop(c, FALSE)
         ELSE /\ running' = running
              /\ Ends(c, "RuntimeError")
    ELSE /\ running' = running
         /\ MainLoop(c, running[ev[c]])

\* stream_manager.read_stream returns for queue qi[c] (any = it returned
\* messages): the next queue is read, or the batch is gathered, or, the
\* batch empty, the cycle ends.
ReadReturns(c, any) ==
    /\ pc[c] = "read"
    /\ IF qi[c] < Len(ReadQueues)
       THEN /\ qi' = [qi EXCEPT ![c] = @ + 1]
            /\ batchAny' = [batchAny EXCEPT ![c] = @ \/ any]
            /\ UNCHANGED <<pc, cycleAfterStop, outcome, issued, running>>
       ELSE IF batchAny[c] \/ any
            THEN /\ pc' = [pc EXCEPT ![c] = "gather"]
                 /\ batchAny' = [batchAny EXCEPT ![c] = TRUE]
                 /\ UNCHANGED <<qi, cycleAfterStop, outcome, issued, running>>
            ELSE CycleEnd(c)
    /\ UNCHANGED <<notLife, ensured, stop_event_outcome, has_datatypes, stream_manager, callee, test_mode, ev,
                   last_result, histVars, stopVars>>

\* stream_manager.read_stream raises StreamOSError: neither
\* _read_stream_cycle nor read_stream catches it, the exception leaves
\* read_stream and the token stays as it is.
ReadRaises(c) ==
    /\ pc[c] = "read"
    /\ Ends(c, "StreamOSError")
    /\ UNCHANGED <<notLife, ensured, stop_event_outcome, has_datatypes, stream_manager, running, callee, test_mode,
                   ev, last_result, histVars, stopVars>>

\* asyncio.gather(*batch) returns: every message task of the cycle is done.
GatherReturns(c) ==
    /\ pc[c] = "gather"
    /\ CycleEnd(c)
    /\ UNCHANGED <<notLife, ensured, stop_event_outcome, has_datatypes, stream_manager, callee, test_mode, ev,
                   last_result, histVars, stopVars>>

\* service_loop(event_name, test_mode): the assertion, the acquire, up to
\* the start-up sleep. The assertion failure is raised to the caller.
ServiceLoop(c, e, tm) ==
    /\ NextCall(c)
    /\ ev' = [ev EXCEPT ![c] = e]
    /\ callee' = [callee EXCEPT ![c] = "service_loop"]
    /\ test_mode' = [test_mode EXCEPT ![c] = tm]
    /\ IF running[e]
       THEN /\ pc' = [pc EXCEPT ![c] = "done"]
            /\ outcome' = [outcome EXCEPT ![c] = "AssertionError"]
            /\ running' = running
       ELSE /\ pc' = [pc EXCEPT ![c] = "sdelay"]
            /\ outcome' = outcome
            /\ running' = [running EXCEPT ![e] = TRUE]
    /\ UNCHANGED <<notLife, ensured, stop_event_outcome, has_datatypes, stream_manager, qi, batchAny, issued,
                   last_result, cycleAfterStop, histVars, stopVars>>

\* After the sleep: `if self._running[event_name].locked()`, the first
\* payload is awaited from the service generator; otherwise the return.
ServiceStart(c) ==
    /\ pc[c] = "sdelay"
    /\ IF running[ev[c]]
       THEN /\ pc' = [pc EXCEPT ![c] = "gen"]
            /\ outcome' = outcome
       ELSE /\ pc' = [pc EXCEPT ![c] = "done"]
            /\ outcome' = [outcome EXCEPT ![c] = "returned"]
    /\ UNCHANGED <<notLife, ensured, stop_event_outcome, has_datatypes, stream_manager, running, callee, test_mode,
                   ev, qi, batchAny, issued, last_result, cycleAfterStop, histVars,
                   stopVars>>

\* The generator yields a payload: execute is invoked for it.
ServicePayload(c) ==
    /\ pc[c] = "gen"
    /\ pc' = [pc EXCEPT ![c] = "exec"]
    /\ execAfterStop' = [execAfterStop EXCEPT ![c] = @ \/ stopDuringExec[c]]
    /\ UNCHANGED <<notLife, ensured, stop_event_outcome, has_datatypes, stream_manager, running, callee, test_mode,
                   ev, qi, batchAny, issued, last_result, outcome, cycleAfterStop,
                   stopSeen, stopDuringExec, stopVars>>

\* The generator is exhausted: service_loop returns last_result.
ServiceGenEnds(c) ==
    /\ pc[c] = "gen"
    /\ pc' = [pc EXCEPT ![c] = "done"]
    /\ outcome' = [outcome EXCEPT ![c] = "returned"]
    /\ UNCHANGED <<notLife, ensured, stop_event_outcome, has_datatypes, stream_manager, running, callee, test_mode,
                   ev, qi, batchAny, issued, last_result, cycleAfterStop, histVars,
                   stopVars>>

\* `if test_mode: release(); return last_result` at the end of an iteration.
ServiceIterationEnd(c) ==
    IF test_mode[c]
    THEN /\ pc' = [pc EXCEPT ![c] = "done"]
         /\ IF running[ev[c]]
            THEN /\ running' = Release(running, ev[c])
                 /\ outcome' = [outcome EXCEPT ![c] = "returned"]
            ELSE /\ running' = running
                 /\ outcome' = [outcome EXCEPT ![c] = "RuntimeError"]
    ELSE /\ pc' = [pc EXCEPT ![c] = "gen"]
         /\ UNCHANGED <<running, outcome>>

\* execute returns: the result is the last result; the loop breaks when
\* the token is no longer held.
ServiceExecOk(c) ==
    /\ pc[c] = "exec"
    /\ last_result' = [last_result EXCEPT ![c] = "result"]
    /\ IF ~running[ev[c]]
       THEN /\ pc' = [pc EXCEPT ![c] = "done"]
            /\ outcome' = [outcome EXCEPT ![c] = "returned"]
            /\ running' = running
       ELSE ServiceIterationEnd(c)
    /\ UNCHANGED <<notLife, ensured, stop_event_outcome, has_datatypes, stream_manager, callee, test_mode, ev, qi,
                   batchAny, issued, cycleAfterStop, histVars, stopVars>>

\* A failed execute that ends the service loop.
ServiceExecFailsEnds(c) ==
    /\ pc[c] = "exec"
    /\ last_result' = [last_result EXCEPT ![c] = "exception"]
    /\ pc' = [pc EXCEPT ![c] = "done"]
    /\ outcome' = [outcome EXCEPT ![c] = "returned"]
    /\ running' = running
    /\ UNCHANGED <<notLife, ensured, stop_event_outcome, has_datatypes, stream_manager, callee, test_mode, ev, qi,
                   batchAny, issued, cycleAfterStop, histVars, stopVars>>

\* execute raises (an exception, TimeoutError, CancelledError): the
\* exception is the last result; the token is not looked at.
ServiceExecFails(c) ==
    /\ pc[c] = "exec"
    /\ last_result' = [last_result EXCEPT ![c] = "exception"]
    /\ ServiceIterationEnd(c)
    /\ UNCHANGED <<notLife, ensured, stop_event_outcome, has_datatypes, stream_manager, callee, test_mode, ev, qi,
                   batchAny, issued, cycleAfterStop, histVars, stopVars>>

\* stop_event(event_name): release the token if held, RuntimeError if not.
StopEventTokens(e) ==
    /\ IF running[e]
       THEN /\ running' = Release(running, e)
            /\ stopSeen' = [c \in Calls |->
                              stopSeen[c] \/ (ev[c] = e /\ InCycle(c))]
            /\ stopDuringExec' = [c \in Calls |->
                              stopDuringExec[c] \/ (ev[c] = e /\ pc[c] = "exec")]
       ELSE UNCHANGED <<running, stopSeen, stopDuringExec>>
    /\ UNCHANGED <<notLife, ensured, has_datatypes, stream_manager, callee, test_mode, pc, ev,
                   qi, batchAny, issued, last_result, outcome, cycleAfterStop,
                   execAfterStop, stopVars>>

\* stop_event(e), its outcome not recorded
StopEvent(e) ==
    /\ StopEventTokens(e)
    /\ UNCHANGED stop_event_outcome

\* stop_event(e), recording how the call ended
StopEventCall(e) ==
    /\ StopEventTokens(e)
    /\ stop_event_outcome' =
          <<e, IF running[e] THEN "returned" ELSE "RuntimeError",
            IF stop_event_outcome = <<>> THEN 0 ELSE 1 - stop_event_outcome[3]>>

\* stop() that closes the Stream Manager without the grace sleep.
StopNoGrace ==
    /\ stopPc = "idle"
    /\ runningAtStop' = {e \in Events : running[e]}
    /\ stopReleased' = {e \in Events : running[e]}
    /\ running' = [e \in Events |-> FALSE]
    /\ stopSeen' = [c \in Calls |->
                      stopSeen[c] \/ (running[ev[c]] /\ InCycle(c))]
    /\ stopDuringExec' = [c \in Calls |->
                      stopDuringExec[c] \/ (running[ev[c]] /\ pc[c] = "exec")]
    /\ stream_manager' = IF stream_manager # "none" THEN "closed" ELSE "none"
    /\ stopPc' = "connections"
    /\ UNCHANGED <<notLife, ensured, stop_event_outcome, has_datatypes, callee, test_mode, pc, ev, qi, batchAny,
                   issued, last_result, outcome, cycleAfterStop, execAfterStop,
                   sleptMs, connsStopped>>

\* stop(): stop_event for every event whose token is held (no suspension in
\* between), then the grace sleep if there is a stream manager.
Stop ==
    /\ stopPc = "idle"
    /\ LET held == {e \in Events : running[e]} IN
       /\ runningAtStop' = held
       /\ stopReleased' = held
       /\ running' = [e \in Events |-> FALSE]
       /\ stopSeen' = [c \in Calls |->
                         stopSeen[c] \/ (ev[c] \in held /\ InCycle(c))]
       /\ stopDuringExec' = [c \in Calls |->
                         stopDuringExec[c] \/ (ev[c] \in held /\ pc[c] = "exec")]
    /\ stopPc' = IF stream_manager # "none" THEN "sleep" ELSE "connections"
    /\ UNCHANGED <<notLife, ensured, stop_event_outcome, has_datatypes, stream_manager, callee, test_mode, pc, ev,
                   qi, batchAny, issued, last_result, outcome, cycleAfterStop,
                   execAfterStop, sleptMs, connsStopped>>

\* The sleep of (read_stream_timeout + 5000) / 1000 seconds is over:
\* stream_manager.close().
StopClose ==
    /\ stopPc = "sleep"
    /\ sleptMs' = read_stream_timeout + GraceMs
    /\ stream_manager' = "closed"
    /\ stopPc' = "connections"
    /\ UNCHANGED <<notLife, ensured, stop_event_outcome, has_datatypes, running, callVars, cycleAfterStop,
                   histVars, runningAtStop, stopReleased, connsStopped>>

\* stop_app_connections(app_key)
StopConnections ==
    /\ stopPc = "connections"
    /\ connsStopped' = TRUE
    /\ stopPc' = "done"
    /\ UNCHANGED <<notLife, ensured, stop_event_outcome, has_datatypes, stream_manager, running, callVars,
                   cycleAfterStop, histVars, runningAtStop, stopReleased, sleptMs>>

Next ==
    \/ \E c \in Calls, e \in Events : ReadStream(c, e, FALSE)
    \/ \E c \in Calls : Acquire(c)
    \/ \E c \in Calls : EnsureOk(c)
    \/ \E c \in Calls : EnsureFail(c)
    \/ \E c \in Calls, any \in BOOLEAN : ReadReturns(c, any)
    \/ \E c \in Calls : ReadRaises(c)
    \/ \E c \in Calls : GatherReturns(c)
    \/ \E e \in Events : StopEvent(e)
    \/ Stop
    \/ StopClose
    \/ StopConnections

LifeIdle ==
    /\ stream_manager = "open"
    /\ running = [e \in Events |-> FALSE]
    /\ has_datatypes = [e \in Events |-> TRUE]
    /\ callee = [c \in Calls |-> "none"]
    /\ test_mode = [c \in Calls |-> FALSE]
    /\ pc = [c \in Calls |-> "idle"]
    /\ ev = [c \in Calls |-> "e1"]
    /\ qi = [c \in Calls |-> 0]
    /\ batchAny = [c \in Calls |-> FALSE]
    /\ issued = [c \in Calls |-> FALSE]
    /\ last_result = [c \in Calls |-> "None"]
    /\ outcome = [c \in Calls |-> "none"]
    /\ ensured = [c \in Calls |-> {}]
    /\ stop_event_outcome = <<>>
    /\ stopSeen = [c \in Calls |-> FALSE]
    /\ cycleAfterStop = [c \in Calls |-> FALSE]
    /\ stopDuringExec = [c \in Calls |-> FALSE]
    /\ execAfterStop = [c \in Calls |-> FALSE]
    /\ stopPc = "idle"
    /\ runningAtStop = {}
    /\ stopReleased = {}
    /\ sleptMs = 0
    /\ connsStopped = FALSE

Init == LifeInit /\ batch_size = 1 /\ StreamIdle /\ ExecIdle /\ ConfigIdle
    /\ DelayIdle /\ BreakerIdle /\ ArgsIdle /\ ServiceIdle /\ ServerIdle /\ EnvIdle

Spec == Init /\ [][Next]_vars

\* SpecStopEvent: read_stream calls and stop_event calls whose outcome is
\* recorded, without stop().
StopEventNext ==
    \/ \E c \in Calls, e \in Events : ReadStream(c, e, FALSE)
    \/ \E c \in Calls : Acquire(c)
    \/ \E c \in Calls : EnsureOk(c)
    \/ \E c \in Calls : EnsureFail(c)
    \/ \E c \in Calls, any \in BOOLEAN : ReadReturns(c, any)
    \/ \E c \in Calls : ReadRaises(c)
    \/ \E c \in Calls : GatherReturns(c)
    \/ \E e \in Events : StopEventCall(e)

SpecStopEvent == Init /\ [][StopEventNext]_vars

\* ----------------------------------------------------------- SpecLoops
\* The driver loops of one event of a started engine, a STREAM event with
\* datatypes and a __service__ hook: read_stream and service_loop calls, in
\* test mode or not, and stop_event.
LoopEvents == {"e1"}

LoopsNext ==
    \/ \E c \in Calls, e \in LoopEvents, tm \in BOOLEAN : ReadStream(c, e, tm)
    \/ \E c \in Calls : Acquire(c)
    \/ \E c \in Calls : EnsureOk(c)
    \/ \E c \in Calls : EnsureFail(c)
    \/ \E c \in Calls, any \in BOOLEAN : ReadReturns(c, any)
    \/ \E c \in Calls : ReadRaises(c)
    \/ \E c \in Calls : GatherReturns(c)
    \/ \E c \in Calls, e \in LoopEvents, tm \in BOOLEAN : ServiceLoop(c, e, tm)
    \/ \E c \in Calls : ServiceStart(c)
    \/ \E c \in Calls : ServicePayload(c)
    \/ \E c \in Calls : ServiceGenEnds(c)
    \/ \E c \in Calls : ServiceExecOk(c)
    \/ \E c \in Calls : ServiceExecFails(c)
    \/ \E e \in LoopEvents : StopEvent(e)

InitLoops == LifeIdle /\ batch_size = 1 /\ StreamIdle /\ ExecIdle /\ ConfigIdle
    /\ DelayIdle /\ BreakerIdle /\ ArgsIdle /\ ServiceIdle /\ ServerIdle /\ EnvIdle

SpecLoops == InitLoops /\ [][LoopsNext]_vars

\* ========================================================== SpecStream
\* One read_stream loop of one STREAM event, past its acquire and its
\* ensure_consumer_group calls, reading ReadQueues of stream read_stream_name
\* with consumer group consumer_group, and the broker it reads from.

RECURSIVE Ascending(_)
Ascending(S) ==
    IF S = {} THEN <<>>
    ELSE LET lo == CHOOSE x \in S : \A y \in S : x <= y
         IN <<lo>> \o Ascending(S \ {lo})

Take(s, n) == SubSeq(s, 1, IF Len(s) < n THEN Len(s) ELSE n)

\* The stream read for a queue: the bare name for AUTO, name.queue otherwise.
QueueStream(name, q) == IF q = AUTO THEN <<name>> ELSE <<name, q>>

\* A read of every queue on the bare stream name.
ReadCallBare(i) ==
    [stream_name |-> <<read_stream_name>>, consumer_group |-> consumer_group,
     offset |-> ">"]

\* The stream_manager.read_stream call of _read_stream_cycle for the i-th
\* declared queue.
ReadCall(i) ==
    [stream_name |-> QueueStream(read_stream_name, ReadQueues[i]),
     consumer_group |-> consumer_group,
     offset |-> ">"]

\* XREADGROUP with offset ">" and COUNT count on the stream of queue q: the
\* entries never delivered to the group, oldest first.
XReadGroup(q, count) ==
    Take(Ascending({m \in Msgs : msgStream[m] = q /\ m > lastDelivered[q]}), count)

StreamInit ==
    /\ batch_size \in 1..MaxBatch
    /\ produced = 0
    /\ msgStream = [m \in Msgs |-> 0]
    /\ msgType = [m \in Msgs |-> "none"]
    /\ lastDelivered = [q \in 1..NQ |-> 0]
    /\ pending = {}
    /\ deliveries = [m \in Msgs |-> 0]
    /\ spc = "read"
    /\ sq = 1
    /\ cycBatch = <<>>
    /\ cycReads = <<ReadCall(1)>>
    /\ cycGot = <<>>
    /\ tpc = [m \in Msgs |-> "none"]
    /\ tout = [m \in Msgs |-> "none"]
    /\ failedAt = [m \in Msgs |-> "none"]
    /\ taskStream = [m \in Msgs |-> <<>>]
    /\ acks = [m \in Msgs |-> <<>>]
    /\ type_errors = {}
    /\ stat_errors = 0
    /\ msgAuth = [m \in Msgs |-> "none"]
    /\ ctx = [m \in Msgs |-> <<>>]
    /\ last_context = 0
    /\ wmeta = [m \in Msgs |-> <<>>]

\* A producer appends the next message, of type t and with the auth_info
\* of user u, to the stream of queue q (XADD).
Produce(q, t, u) ==
    /\ produced < MaxMsgs
    /\ produced' = produced + 1
    /\ msgStream' = [msgStream EXCEPT ![produced + 1] = q]
    /\ msgType' = [msgType EXCEPT ![produced + 1] = t]
    /\ msgAuth' = [msgAuth EXCEPT ![produced + 1] = u]
    /\ UNCHANGED <<lastDelivered, pending, deliveries, spc, sq, cycBatch, tpc,
                   tout, failedAt, stat_errors, type_errors, taskStream, acks,
                   ctx, last_context, wmeta, cycVars, batch_size, notStream>>

\* A read that decodes every entry, whatever its type.
DecodedAll(got) == got

\* The entries of a read whose type is one of the event's datatypes, and the
\* others, which read_stream returns as TypeError entries.
Decoded(got) == SelectSeq(got, LAMBDA m : msgType[m] \in Datatypes)
Undecoded(got) == {m \in Range(got) : msgType[m] \notin Datatypes}

\* _decode_message: the track_ids of the StreamEvent of message m read from
\* stream_name (msg_id is the id the broker gave the entry).
StreamEventTrackIds(m, stream_name) ==
    [stream_name |-> stream_name, msg_id |-> m, consumer_group |-> consumer_group]

\* The EventContext _read_stream_cycle creates for message m.
StreamContext(m, stream_name) ==
    [track_ids |-> StreamEventTrackIds(m, stream_name),
     auth_info |-> <<"stream_auth_info", msgAuth[m]>>]

\* _read_stream_cycle: stream_manager.read_stream returns for queue sq. An
\* Exception entry is logged and counted as an error; a coroutine is created
\* for every other message. After the last queue the batch is gathered
\* (every task runs up to its handler), or, the batch empty, the cycle ends
\* and the loop issues the first read of the next cycle.
StreamRead ==
    /\ spc = "read"
    /\ LET got == XReadGroup(sq, batch_size)
           events == Decoded(got)
           all == cycBatch \o events
       IN /\ type_errors' = type_errors \cup Undecoded(got)
          /\ stat_errors' = stat_errors + Cardinality(Undecoded(got))
          /\ lastDelivered' = [lastDelivered EXCEPT
                                 ![sq] = IF got = <<>> THEN @ ELSE got[Len(got)]]
          /\ pending' = pending \cup Range(got)
          /\ deliveries' = [m \in Msgs |->
                              IF m \in Range(got) THEN deliveries[m] + 1
                              ELSE deliveries[m]]
          /\ taskStream' = [m \in Msgs |->
                              IF m \in Range(events)
                              THEN QueueStream(read_stream_name, ReadQueues[sq])
                              ELSE taskStream[m]]
          /\ ctx' = [m \in Msgs |->
                       IF m \in Range(events)
                       THEN <<StreamContext(m, QueueStream(read_stream_name,
                                                          ReadQueues[sq]))>>
                       ELSE ctx[m]]
          /\ last_context' = IF events # <<>> THEN events[Len(events)]
                             ELSE IF sq = 1 THEN 0 ELSE last_context
          /\ IF sq < NQ
             THEN /\ sq' = sq + 1
                  /\ spc' = "read"
                  /\ cycBatch' = all
                  /\ cycReads' = Append(cycReads, ReadCall(sq + 1))
                  /\ cycGot' = Append(cycGot, events)
                  /\ tpc' = [m \in Msgs |->
                               IF m \in Range(events) THEN "created" ELSE tpc[m]]
             ELSE IF all # <<>>
                  THEN /\ spc' = "gather"
                       /\ sq' = sq
                       /\ cycBatch' = all
                       /\ cycReads' = cycReads
                       /\ cycGot' = Append(cycGot, events)
                       /\ tpc' = [m \in Msgs |->
                                    IF m \in Range(all) THEN "handler" ELSE tpc[m]]
                  ELSE /\ spc' = "read"
                       /\ sq' = 1
                       /\ cycBatch' = <<>>
                       /\ cycReads' = <<ReadCall(1)>>
                       /\ cycGot' = <<>>
                       /\ tpc' = tpc
    /\ UNCHANGED <<produced, msgStream, msgType, msgAuth, wmeta, tout, failedAt,
                   acks, batch_size, notStream>>

\* A wait for the batch that returns as soon as one task of the cycle has
\* ended.
StreamGatherFirst ==
    /\ spc = "gather"
    /\ \E m \in Range(cycBatch) : tpc[m] = "done"
    /\ spc' = "read"
    /\ sq' = 1
    /\ cycBatch' = <<>>
    /\ cycReads' = <<ReadCall(1)>>
    /\ cycGot' = <<>>
    /\ last_context' = 0
    /\ UNCHANGED <<produced, msgStream, msgType, type_errors, lastDelivered, pending, deliveries, tpc,
                   tout, failedAt, stat_errors, taskStream, acks, msgAuth, ctx, wmeta, batch_size, notStream>>

\* asyncio.gather(*batch) returns once every task of the cycle has ended;
\* the loop (its token still held) issues the first read of the next cycle.
StreamGatherReturns ==
    /\ spc = "gather"
    /\ \A m \in Range(cycBatch) : tpc[m] = "done"
    /\ spc' = "read"
    /\ sq' = 1
    /\ cycBatch' = <<>>
    /\ cycReads' = <<ReadCall(1)>>
    /\ cycGot' = <<>>
    /\ last_context' = 0
    /\ UNCHANGED <<produced, msgStream, msgType, type_errors, lastDelivered, pending, deliveries, tpc,
                   tout, failedAt, stat_errors, taskStream, acks, msgAuth, ctx, wmeta, batch_size, notStream>>

\* ack_read_stream on the bare stream name, the queue suffix forgotten.
AckCallBare(m) ==
    [stream_name |-> <<read_stream_name>>, consumer_group |-> consumer_group]

\* The arguments of the ack_read_stream call of message m.
AckCall(m) == [stream_name |-> taskStream[m], consumer_group |-> consumer_group]

\* _process_stream_event: _execute_event has returned, ack_read_stream is
\* called (XACK is in flight).
IssueAck(m) ==
    /\ tpc' = [tpc EXCEPT ![m] = "acking"]
    /\ acks' = [acks EXCEPT ![m] = Append(@, AckCall(m))]

\* A failed task that acknowledges all the same (an ack in a finally clause).
EndFailedAcked(m, kind) ==
    /\ tpc' = [tpc EXCEPT ![m] = "done"]
    /\ tout' = [tout EXCEPT ![m] = kind]
    /\ failedAt' = [failedAt EXCEPT ![m] = tpc[m]]
    /\ stat_errors' = stat_errors + 1
    /\ wmeta' = [wmeta EXCEPT ![m] = <<>>]
    /\ acks' = [acks EXCEPT ![m] = Append(@, AckCall(m))]
    /\ UNCHANGED <<spc, cycBatch>>

\* A failed task whose exception is re-raised: gather hands it to
\* _read_stream_cycle, which read_stream does not catch.
EndFailedRaised(m, kind) ==
    /\ tpc' = [tpc EXCEPT ![m] = "done"]
    /\ tout' = [tout EXCEPT ![m] = kind]
    /\ failedAt' = [failedAt EXCEPT ![m] = tpc[m]]
    /\ stat_errors' = stat_errors + 1
    /\ wmeta' = [wmeta EXCEPT ![m] = <<>>]
    /\ acks' = acks
    /\ spc' = "raised"
    /\ cycBatch' = cycBatch

\* The task of m ends with an exception object or a Timeout as its outcome:
\* the error is counted, the exception is returned (the gather of the cycle
\* goes on waiting for the other tasks).
EndFailed(m, kind) ==
    /\ tpc' = [tpc EXCEPT ![m] = "done"]
    /\ tout' = [tout EXCEPT ![m] = kind]
    /\ failedAt' = [failedAt EXCEPT ![m] = tpc[m]]
    /\ stat_errors' = stat_errors + 1
    /\ wmeta' = [wmeta EXCEPT ![m] = <<>>]
    /\ acks' = acks
    /\ UNCHANGED <<spc, cycBatch>>

\* _write_stream taking track_ids and auth_info from the context created
\* last in the cycle.
WriteContextLast(m) == ctx[last_context][1]

\* The context _write_stream takes track_ids and auth_info from: the one
\* _process_stream_event was created with for message m.
WriteContext(m) == ctx[m][1]

\* _execute_event: the handler has yielded enough for a flush, the writes
\* of the batch are in flight.
HandlerYields(m) ==
    /\ tpc[m] = "handler"
    /\ tpc' = [tpc EXCEPT ![m] = "write"]
    /\ wmeta' = [wmeta EXCEPT ![m] =
                    <<[track_ids |-> WriteContext(m).track_ids,
                       auth_info |-> WriteContext(m).auth_info]>>]
    /\ UNCHANGED <<produced, msgStream, msgType, msgAuth, ctx, last_context,
                   type_errors, lastDelivered, pending, deliveries, spc, sq,
                   cycBatch, tout, failedAt, stat_errors, taskStream, acks,
                   cycVars, batch_size, notStream>>

\* _execute_event: the writes of a flush have completed.
WriteOk(m) ==
    /\ tpc[m] = "write"
    /\ wmeta' = [wmeta EXCEPT ![m] = <<>>]
    /\ \/ /\ tpc' = [tpc EXCEPT ![m] = "handler"]
          /\ acks' = acks
       \/ IssueAck(m)
    /\ UNCHANGED <<produced, msgStream, msgType, type_errors, lastDelivered, pending, deliveries, spc,
                   sq, cycBatch, tout, failedAt, stat_errors, taskStream, msgAuth, ctx, last_context, cycVars, batch_size, notStream>>

\* _execute_event returns with no flush pending: the message is acknowledged.
HandlerReturns(m) ==
    /\ tpc[m] = "handler"
    /\ IssueAck(m)
    /\ UNCHANGED <<produced, msgStream, msgType, type_errors, lastDelivered, pending, deliveries, spc,
                   sq, cycBatch, tout, failedAt, stat_errors, taskStream, trackVars, cycVars, batch_size, notStream>>

\* A step of the handler or a write raises: `except Exception`, return e.
ExecFails(m) ==
    /\ tpc[m] \in {"handler", "write"}
    /\ EndFailed(m, "error")
    /\ UNCHANGED <<produced, msgStream, msgType, type_errors, lastDelivered, pending,
                   deliveries, sq, taskStream, msgAuth, ctx, last_context, cycVars, batch_size, notStream>>

\* stream.timeout expires (asyncio.wait_for cancels the task) or the task
\* is cancelled, at whatever await it is suspended in. A XACK in flight may
\* or may not have reached the broker.
TaskInterrupted(m, kind, applied) ==
    /\ tpc[m] \in {"handler", "write", "acking"}
    /\ EndFailed(m, kind)
    /\ pending' = IF tpc[m] = "acking" /\ applied THEN pending \ {m} ELSE pending
    /\ UNCHANGED <<produced, msgStream, msgType, type_errors, lastDelivered,
                   deliveries, sq, taskStream, msgAuth, ctx, last_context, cycVars, batch_size, notStream>>

\* ack_read_stream returns 1: done, the result of the event is the outcome.
AckOk(m) ==
    /\ tpc[m] = "acking"
    /\ m \in pending
    /\ tpc' = [tpc EXCEPT ![m] = "done"]
    /\ tout' = [tout EXCEPT ![m] = "ok"]
    /\ pending' = pending \ {m}
    /\ UNCHANGED <<produced, msgStream, msgType, type_errors, lastDelivered, deliveries, spc, sq,
                   cycBatch, failedAt, stat_errors, taskStream, acks, trackVars, cycVars, batch_size, notStream>>

\* ack_read_stream raises StreamOSError: `except Exception`, return e.
AckFails(m, applied) ==
    /\ tpc[m] = "acking"
    /\ EndFailed(m, "error")
    /\ pending' = IF applied THEN pending \ {m} ELSE pending
    /\ UNCHANGED <<produced, msgStream, msgType, type_errors, lastDelivered,
                   deliveries, sq, taskStream, msgAuth, ctx, last_context, cycVars, batch_size, notStream>>

StreamLoopStep ==
    \/ StreamRead
    \/ StreamGatherReturns

StreamTaskStep ==
    \/ \E m \in Msgs : HandlerYields(m)
    \/ \E m \in Msgs : WriteOk(m)
    \/ \E m \in Msgs : HandlerReturns(m)
    \/ \E m \in Msgs : ExecFails(m)
    \/ \E m \in Msgs, kind \in {"timeout", "cancelled"}, applied \in BOOLEAN :
          TaskInterrupted(m, kind, applied)
    \/ \E m \in Msgs : AckOk(m)
    \/ \E m \in Msgs, applied \in BOOLEAN : AckFails(m, applied)

StreamNext ==
    \/ \E q \in 1..NQ, t \in MsgTypes, u \in Users : Produce(q, t, u)
    \/ StreamLoopStep
    \/ StreamTaskStep

InitStream == StreamInit /\ LifeIdle /\ ExecIdle /\ ConfigIdle
    /\ DelayIdle /\ BreakerIdle /\ ArgsIdle /\ ServiceIdle /\ ServerIdle /\ EnvIdle

SpecStream == InitStream /\ [][StreamNext]_vars

\* The event loop runs every task that can run, and stream.timeout ends
\* every message task; producers are under no obligation.
SpecStreamFair ==
    /\ SpecStream
    /\ WF_vars(StreamLoopStep)
    /\ WF_vars(StreamTaskStep)


\* ============================================================ SpecExec
\* One invocation of _execute_event, under the asyncio.wait_for of execute
\* (request and service path, upstream queue AUTO) or of
\* _process_stream_event_with_timeout (stream path, upstream queue taken
\* from the consumed message).

WriteStreams ==
    {[name |-> "out", queues |-> qs, queue_strategy |-> st] :
        qs \in {<<AUTO>>, <<"low">>, <<AUTO, "low">>},
        st \in {"PROPAGATE", "DROP"}}

UpstreamQueues == {AUTO, "hp"}

\* The upstream queue taken from the suffix of the stream that was read.
ExecQueueOfStream(v, label, suffix) == IF v = "stream" THEN suffix ELSE AUTO

\* The queue argument of _execute_event: execute leaves the default AUTO,
\* _process_stream_event passes stream_event.queue.
ExecQueue(v, label, suffix) == IF v = "stream" THEN label ELSE AUTO

\* _write_stream: the stream a payload is written to, for one configured queue.
WriteStreamNameNoStrategy(name, upstream_queue, configured_queue, queue_strategy) ==
    IF upstream_queue # AUTO /\ configured_queue = AUTO
    THEN <<name, upstream_queue>>
    ELSE IF configured_queue # AUTO
         THEN <<name, configured_queue>>
         ELSE <<name>>

\* _write_stream that never propagates the upstream queue into the name.
WriteStreamNameNoPropagate(name, upstream_queue, configured_queue, queue_strategy) ==
    IF configured_queue # AUTO THEN <<name, configured_queue>> ELSE <<name>>

WriteStreamName(name, upstream_queue, configured_queue, queue_strategy) ==
    IF /\ upstream_queue # AUTO
       /\ configured_queue = AUTO
       /\ queue_strategy = "PROPAGATE"
    THEN <<name, upstream_queue>>
    ELSE IF configured_queue # AUTO
         THEN <<name, configured_queue>>
         ELSE <<name>>

\* the label is always the upstream queue
QueueNameUpstream(upstream_queue, configured_queue, queue_strategy) == upstream_queue

\* _write_stream: the queue label stamped into the message.
QueueName(upstream_queue, configured_queue, queue_strategy) ==
    IF queue_strategy = "DROP" THEN configured_queue ELSE upstream_queue

\* The stream_manager.write_stream call of _write_stream for payload item
\* and the k-th configured queue, in the flush numbered f.
WriteCall(item, k, f) ==
    LET ws == write_stream[1]
        configured_queue == ws.queues[k]
    IN [payload |-> item,
        stream_name |-> WriteStreamName(ws.name, queue, configured_queue,
                                        ws.queue_strategy),
        queue |-> QueueName(queue, configured_queue, ws.queue_strategy),
        configured_queue |-> configured_queue,
        flush |-> f]

NumQueues == IF write_stream = <<>> THEN 0 ELSE Len(write_stream[1].queues)

InFlight(i) == i \in 1..Len(wq) /\ wq[i] \in 1..NumQueues

ExecInit ==
    /\ batch_size \in 1..MaxBatch
    /\ via \in {"execute", "stream"}
    /\ write_stream \in {<<>>} \cup {<<ws>> : ws \in WriteStreams}
    /\ msg_queue \in (IF via = "execute" THEN {AUTO} ELSE UpstreamQueues)
    /\ consumed_queue \in (IF via = "execute" THEN {AUTO} ELSE Range(ReadQueues))
    /\ queue = ExecQueue(via, msg_queue, consumed_queue)
    /\ epc = "pull"
    /\ final = FALSE
    /\ yielded = <<>>
    /\ result = None
    /\ batch = <<>>
    /\ wq = <<>>
    /\ writes = <<>>
    /\ flushes = 0
    /\ caller = "waiting"
    /\ retval = None

\* `async for result in ...`: the loop variable after the handler yielded v.
KeepNonNull(old, v) == IF v = None THEN old ELSE v

PulledResult(old, v) == v

\* The flush condition on the batch (the write_stream test apart).
BatchOverFull(b) == Len(b) > batch_size

BatchFull(b) == Len(b) >= batch_size

\* _write_stream_batch that is not awaited: the handler is pulled again
\* while the writes are in flight.
StartFlushNoAwait(b, isFinal) ==
    /\ epc' = IF isFinal THEN "flush" ELSE "pull"
    /\ final' = isFinal
    /\ batch' = b
    /\ wq' = [i \in 1..Len(b) |-> 1]
    /\ writes' = writes \o [i \in 1..Len(b) |-> WriteCall(b[i], 1, flushes + 1)]
    /\ flushes' = flushes + 1
    /\ UNCHANGED <<caller, retval>>

\* _write_stream_batch(batch): asyncio.gather starts one _write_stream per
\* item, each issues its write for the first configured queue.
StartFlush(b, isFinal) ==
    /\ epc' = "flush"
    /\ final' = isFinal
    /\ batch' = b
    /\ wq' = [i \in 1..Len(b) |-> 1]
    /\ writes' = writes \o [i \in 1..Len(b) |-> WriteCall(b[i], 1, flushes + 1)]
    /\ flushes' = flushes + 1
    /\ UNCHANGED <<caller, retval>>

\* `return result`
Return ==
    /\ epc' = "done"
    /\ caller' = "returned"
    /\ retval' = result

\* The handler yields v: result is bound to it, a non-null v joins the
\* batch, a full batch is flushed when write_stream is configured.
Yield(v) ==
    /\ epc = "pull"
    /\ Len(yielded) < MaxYield
    /\ v = None \/ v = Len(yielded) + 1
    /\ yielded' = Append(yielded, v)
    /\ result' = PulledResult(result, v)
    /\ LET b == IF v # None THEN Append(batch, v) ELSE batch
       IN IF BatchFull(b) /\ write_stream # <<>>
          THEN StartFlush(b, FALSE)
          ELSE /\ batch' = b
               /\ UNCHANGED <<epc, final, wq, writes, flushes, caller, retval>>
    /\ UNCHANGED <<via, write_stream, msg_queue, consumed_queue, queue, batch_size, notExec>>

\* The end of the handler with the trailing batch written whether or not
\* the event declares a write_stream.
HandlerEndsUnguarded ==
    /\ epc = "pull"
    /\ IF Len(batch) > 0 /\ write_stream # <<>>
       THEN StartFlush(batch, TRUE)
       ELSE IF Len(batch) > 0
            THEN /\ writes' = Append(writes,
                                     [payload |-> batch[1], stream_name |-> <<>>,
                                      queue |-> queue, configured_queue |-> AUTO,
                                      flush |-> flushes + 1])
                 /\ flushes' = flushes + 1
                 /\ Return
                 /\ UNCHANGED <<final, batch, wq>>
            ELSE /\ Return
                 /\ UNCHANGED <<final, batch, wq, writes, flushes>>
    /\ UNCHANGED <<yielded, result, via, write_stream, msg_queue, consumed_queue, queue, batch_size, notExec>>

\* The handler ends: the trailing batch is flushed, or result is returned.
HandlerEnds ==
    /\ epc = "pull"
    /\ IF Len(batch) > 0 /\ write_stream # <<>>
       THEN StartFlush(batch, TRUE)
       ELSE /\ Return
            /\ UNCHANGED <<final, batch, wq, writes, flushes>>
    /\ UNCHANGED <<yielded, result, via, write_stream, msg_queue, consumed_queue, queue, batch_size, notExec>>

\* A step of the event raises: the exception leaves _execute_event.
HandlerRaises ==
    /\ epc = "pull"
    /\ epc' = "failed"
    /\ caller' = "raised"
    /\ UNCHANGED <<final, yielded, result, batch, wq, writes, flushes, retval,
                   via, write_stream, msg_queue, consumed_queue, queue, batch_size, notExec>>

\* stream_manager.write_stream returns for batch[i]: _write_stream issues
\* the write for the next configured queue, or returns; when the last
\* _write_stream of the flush returns, gather returns, the batch is cleared
\* and _execute_event goes on (or returns after the trailing flush).
WriteReturns(i) ==
    /\ InFlight(i)
    /\ LET nwq == [wq EXCEPT ![i] = @ + 1]
       IN /\ writes' = IF nwq[i] <= NumQueues
                       THEN Append(writes, WriteCall(batch[i], nwq[i], flushes))
                       ELSE writes
          /\ IF epc = "flush" /\ \A j \in 1..Len(nwq) : nwq[j] = NumQueues + 1
             THEN /\ batch' = <<>>
                  /\ wq' = <<>>
                  /\ final' = FALSE
                  /\ IF final
                     THEN Return
                     ELSE /\ epc' = "pull"
                          /\ UNCHANGED <<caller, retval>>
             ELSE /\ wq' = nwq
                  /\ UNCHANGED <<epc, final, batch, caller, retval>>
    /\ UNCHANGED <<yielded, result, flushes, via, write_stream, msg_queue, consumed_queue, queue, batch_size,
                   notExec>>

\* stream_manager.write_stream raises StreamOSError for batch[i]: gather
\* hands the first exception to _execute_event at once and leaves the other
\* _write_stream tasks running.
WriteRaises(i) ==
    /\ InFlight(i)
    /\ wq' = [wq EXCEPT ![i] = 0]
    /\ IF epc = "flush"
       THEN /\ epc' = "failed"
            /\ caller' = "raised"
       ELSE UNCHANGED <<epc, caller>>
    /\ UNCHANGED <<final, yielded, result, batch, writes, flushes, retval,
                   via, write_stream, msg_queue, consumed_queue, queue, batch_size, notExec>>

\* asyncio.wait_for without cancellation: the Timeout is surfaced and the
\* task is left running.
TimeoutNoCancel ==
    /\ caller = "waiting"
    /\ caller' = "TimeoutError"
    /\ UNCHANGED <<epc, wq, final, yielded, result, batch, writes, flushes, retval,
                   via, write_stream, msg_queue, consumed_queue, queue, batch_size, notExec>>

\* The timeout of asyncio.wait_for expires: the task of _execute_event is
\* cancelled (gather cancels the writes in flight) and, once it has ended,
\* the Timeout is surfaced to the caller.
Timeout ==
    /\ caller = "waiting"
    /\ epc' = "cancelled"
    /\ wq' = [i \in 1..Len(wq) |-> IF InFlight(i) THEN 0 ELSE wq[i]]
    /\ caller' = "TimeoutError"
    /\ UNCHANGED <<final, yielded, result, batch, writes, flushes, retval,
                   via, write_stream, msg_queue, consumed_queue, queue, batch_size, notExec>>

\* ack_read_stream issued while _execute_event is still running.
ProcessAcksEarly ==
    /\ via = "stream"
    /\ caller \in {"waiting", "returned"}
    /\ caller' = "acked"
    /\ UNCHANGED <<epc, wq, final, yielded, result, batch, writes, flushes, retval,
                   write_stream, msg_queue, consumed_queue, queue, via, batch_size, notExec>>

\* _process_stream_event: _execute_event has returned its result,
\* stream_manager.ack_read_stream is called for the message.
ProcessAcks ==
    /\ via = "stream"
    /\ caller = "returned"
    /\ caller' = "acked"
    /\ UNCHANGED <<epc, wq, final, yielded, result, batch, writes, flushes, retval,
                   write_stream, msg_queue, consumed_queue, queue, via, batch_size, notExec>>

ExecNext ==
    \/ \E v \in 0..MaxYield : Yield(v)
    \/ HandlerEnds
    \/ HandlerRaises
    \/ \E i \in 1..MaxYield : WriteReturns(i)
    \/ \E i \in 1..MaxYield : WriteRaises(i)
    \/ Timeout
    \/ ProcessAcks

InitExec == ExecInit /\ LifeIdle /\ StreamIdle /\ ConfigIdle
    /\ DelayIdle /\ BreakerIdle /\ ArgsIdle /\ ServiceIdle /\ ServerIdle /\ EnvIdle

SpecExec == InitExec /\ [][ExecNext]_vars


\* ========================================================== SpecConfig
\* One call of AppEngine._config_effective_events(app_config,
\* enabled_groups): the loop over the declared events.

EventDescriptors ==
    [group : Groups, type : EventTypes, service : BOOLEAN, stages : 1..MaxStages]

\* The test of the loop without the default group.
EnabledListed(group, enabled) == enabled = {} \/ group \in enabled

\* The test of the loop: is an event of this group considered.
Enabled(group, enabled) ==
    \/ Cardinality(enabled) = 0
    \/ group = DEFAULT_GROUP
    \/ group \in enabled

\* split_event_stages: the event under its own name and one STREAM event
\* <event>$<stage> for every further stage of its steps.
SplitEventStages(event_name, event_info) ==
    {[name |-> <<event_name>>, type |-> event_info.type, of |-> event_name]}
    \cup {[name |-> <<event_name, k>>, type |-> "STREAM", of |-> event_name] :
             k \in 2..event_info.stages}

\* The SERVICE event added to a STREAM event whose implementation has a
\* __service__ method.
ServiceSibling(event_name, event_info) ==
    IF event_info.type = "STREAM" /\ event_info.service
    THEN {[name |-> <<event_name, "__service__">>, type |-> "SERVICE",
           of |-> event_name]}
    ELSE {}

ConfigInit ==
    /\ app_events \in [Range(DeclaredEvents) -> EventDescriptors]
    /\ enabled_groups \in SUBSET (Groups \ {DEFAULT_GROUP})
    /\ effective_events = {}
    /\ cfg_i = 1

\* One iteration of `for event_name, event_info in app_config.events.items()`.
ConfigEvent ==
    /\ cfg_i \in 1..Len(DeclaredEvents)
    /\ LET event_name == DeclaredEvents[cfg_i]
           event_info == app_events[event_name]
       IN effective_events' =
             IF Enabled(event_info.group, enabled_groups)
             THEN effective_events
                    \cup SplitEventStages(event_name, event_info)
                    \cup ServiceSibling(event_name, event_info)
             ELSE effective_events
    /\ cfg_i' = cfg_i + 1
    /\ UNCHANGED <<app_events, enabled_groups, notConfig>>

ConfigNext == ConfigEvent

InitConfig ==
    ConfigInit /\ batch_size = 1 /\ LifeIdle /\ StreamIdle /\ ExecIdle /\ DelayIdle /\ BreakerIdle /\ ArgsIdle /\ ServiceIdle /\ ServerIdle /\ EnvIdle

SpecConfig == InitConfig /\ [][ConfigNext]_vars

\* _config_effective_events has returned.
ConfigDone == cfg_i = Len(DeclaredEvents) + 1


\* =========================================================== SpecDelay
\* The start-up delay of read_stream (engine.py 431-440) and of
\* service_loop (610-618): the same computation on
\* delay_auto_start_seconds, an int number of seconds.

\* The delay with the whole of delay_auto_start_seconds as its base.
StartupWaitWholeBase(d, r1, r2) == d + r1 - r2

\* int(wait / 2) + random.randint(0, wait) - random.randint(0, int(wait / 2))
\* for the draws r1 and r2; int() of a non-negative quotient is its floor.
StartupWait(d, r1, r2) == (d \div 2) + r1 - r2

DelayInit ==
    /\ delay_auto_start_seconds \in 0..MaxDelay
    /\ dcallee \in {"read_stream", "service_loop"}
    /\ dpc = "start"
    /\ draws = <<>>
    /\ wait = 0

\* `if wait > 0`: the two draws (random.randint includes both ends), the
\* assignment to wait and the call of asyncio.sleep(wait).
DelayDraw(r1, r2) ==
    /\ dpc = "start"
    /\ delay_auto_start_seconds > 0
    /\ r1 \in 0..delay_auto_start_seconds
    /\ r2 \in 0..(delay_auto_start_seconds \div 2)
    /\ draws' = <<r1, r2>>
    /\ wait' = StartupWait(delay_auto_start_seconds, r1, r2)
    /\ dpc' = "sleep"
    /\ UNCHANGED <<delay_auto_start_seconds, dcallee, notDelay>>

\* wait is 0: no sleep, the event is driven at once.
DelayNone ==
    /\ dpc = "start"
    /\ delay_auto_start_seconds = 0
    /\ dpc' = "started"
    /\ UNCHANGED <<delay_auto_start_seconds, dcallee, draws, wait, notDelay>>

\* asyncio.sleep(wait) returns.
DelaySlept ==
    /\ dpc = "sleep"
    /\ dpc' = "started"
    /\ UNCHANGED <<delay_auto_start_seconds, dcallee, draws, wait, notDelay>>

DelayNext ==
    \/ \E r1, r2 \in 0..MaxDelay : DelayDraw(r1, r2)
    \/ DelayNone
    \/ DelaySlept

InitDelay ==
    /\ DelayInit /\ batch_size = 1
    /\ LifeIdle /\ StreamIdle /\ ExecIdle /\ ConfigIdle /\ BreakerIdle /\ ArgsIdle /\ ServiceIdle /\ ServerIdle /\ EnvIdle

SpecDelay == InitDelay /\ [][DelayNext]_vars


\* ========================================================= SpecBreaker
\* The StreamCircuitBreaker that AppEngine.start wraps the Stream Manager
\* in (engine.py 101-109), and a sequence of Stream Manager calls through
\* it. Seconds are whole numbers.

\* server.streams: the fields of StreamsConfig the breaker is built from
StreamsConfigs ==
    [initial_backoff_seconds : {1, 2},
     max_backoff_seconds : {4, 8},
     num_failures_open_circuit_breaker : {1, 2}]

\* The breaker built with the two back-off settings exchanged.
CircuitBreakerArgsSwapped(stream_config) ==
    [initial_backoff_seconds |-> stream_config.max_backoff_seconds,
     max_backoff_seconds |-> stream_config.initial_backoff_seconds,
     num_failures_open_circuit_breaker |->
         stream_config.num_failures_open_circuit_breaker]

\* The keyword arguments of StreamCircuitBreaker(...) in AppEngine.start.
CircuitBreakerArgs(stream_config) ==
    [initial_backoff_seconds |-> stream_config.initial_backoff_seconds,
     max_backoff_seconds |-> stream_config.max_backoff_seconds,
     num_failures_open_circuit_breaker |->
         stream_config.num_failures_open_circuit_breaker]

Min(a, b) == IF a < b THEN a ELSE b

\* The back-off after one more failure, the count of consecutive failures
\* now being count: nothing until the count reaches
\* num_failures_open_circuit_breaker; then the breaker is open and the
\* back-off starts at initial_backoff_seconds and doubles, capped at
\* max_backoff_seconds, on each further failure.
BackoffAfterFailure(count, current) ==
    IF count < cb.num_failures_open_circuit_breaker THEN current
    ELSE IF current = 0 THEN cb.initial_backoff_seconds
    ELSE Min(2 * current, cb.max_backoff_seconds)

BreakerInit ==
    /\ streams \in StreamsConfigs
    /\ cb = CircuitBreakerArgs(streams)
    /\ failure_count = 0
    /\ backoff = 0
    /\ bpc = "ready"
    /\ attempts = <<>>

\* A Stream Manager call enters the breaker: it sleeps the current back-off
\* and calls the wrapped Stream Manager.
BreakerCall ==
    /\ bpc = "ready"
    /\ Len(attempts) < MaxAttempts
    /\ bpc' = "calling"
    /\ attempts' = Append(attempts, [slept |-> backoff, outcome |-> "none"])
    /\ UNCHANGED <<streams, cb, failure_count, backoff, notBreaker>>

\* The wrapped call returns: the counter and the back-off are reset.
BreakerSucceeded ==
    /\ bpc = "calling"
    /\ bpc' = "ready"
    /\ failure_count' = 0
    /\ backoff' = 0
    /\ attempts' = [attempts EXCEPT ![Len(attempts)].outcome = "ok"]
    /\ UNCHANGED <<streams, cb, notBreaker>>

\* The wrapped call raises StreamOSError: the failure is counted, the
\* back-off set, the exception raised to the caller.
BreakerFailed ==
    /\ bpc = "calling"
    /\ bpc' = "ready"
    /\ failure_count' = failure_count + 1
    /\ backoff' = BackoffAfterFailure(failure_count + 1, backoff)
    /\ attempts' = [attempts EXCEPT ![Len(attempts)].outcome = "StreamOSError"]
    /\ UNCHANGED <<streams, cb, notBreaker>>

BreakerNext ==
    \/ BreakerCall
    \/ BreakerSucceeded
    \/ BreakerFailed

InitBreaker ==
    /\ BreakerInit /\ batch_size = 1
    /\ LifeIdle /\ StreamIdle /\ ExecIdle /\ ConfigIdle /\ DelayIdle /\ ArgsIdle /\ ServiceIdle /\ ServerIdle /\ EnvIdle

SpecBreaker == InitBreaker /\ [][BreakerNext]_vars


\* ============================================================ SpecArgs
\* One call of replace_config_args (config.py 174-285) on a configuration
\* object whose string fields are numbered 1..MaxFields. A string is a
\* sequence of tokens: literal text, the placeholder {path of a field},
\* {auto}, or the object path that has replaced {auto}.

Fields == 1..MaxFields

Lit(x) == <<"lit", x>>
Placeholder(f) == <<"expr", f>>
Auto == <<"auto">>
ThisPath(f) == <<"this_path", f>>

\* the strings a field is given: text, a placeholder, {auto}, or text
\* followed by a placeholder or by {auto}
ArgValues ==
    LET marks == {Auto} \cup {Placeholder(f) : f \in Fields}
    IN  {<<t>> : t \in {Lit("X")} \cup marks} \cup {<<Lit("X"), t>> : t \in marks}

\* dir(node): every field once, in some order
VisitOrders ==
    {o \in [1..MaxFields -> Fields] : \A i, j \in 1..MaxFields : o[i] = o[j] => i = j}

\* A single sweep over the fields.
OnePass(n) == FALSE

\* `for _ in range(2)`: another pass follows pass n.
MorePasses(n) == n < Passes

\* expr in value
Contains(value, token) == \E i \in 1..Len(value) : value[i] = token

\* value.replace(expr, replacement): every occurrence of the token is
\* replaced by the string replacement
RECURSIVE Replace(_, _, _)
Replace(value, token, replacement) ==
    IF value = <<>> THEN <<>>
    ELSE (IF Head(value) = token THEN replacement ELSE <<Head(value)>>)
         \o Replace(Tail(value), token, replacement)

\* _replace_attrs at the string field f: a value with {auto} has it
\* replaced by the object path; any other value replaces the placeholder
\* of f in the whole of parsed_config (_replace_in_config).
ReplaceAttr(config, f) ==
    IF Contains(config[f], Auto)
    THEN [config EXCEPT ![f] = Replace(@, Auto, <<ThisPath(f)>>)]
    ELSE [g \in Fields |-> Replace(config[g], Placeholder(f), config[f])]

ArgsInit ==
    /\ parsed_config \in [Fields -> ArgValues]
    /\ given = parsed_config
    /\ visit_order \in VisitOrders
    /\ apass = 1
    /\ avisit = 1

\* One iteration of `for attr_name in dir(node)` of _replace_attrs; after
\* the last field of a pass the next pass begins, or the call returns.
ReplaceNext ==
    /\ apass \in 1..Passes
    /\ parsed_config' = ReplaceAttr(parsed_config, visit_order[avisit])
    /\ IF avisit < MaxFields
       THEN /\ avisit' = avisit + 1
            /\ apass' = apass
       ELSE /\ avisit' = 1
            /\ apass' = IF MorePasses(apass) THEN apass + 1 ELSE Passes + 1
    /\ UNCHANGED <<given, visit_order, notArgs>>

ArgsNext == ReplaceNext

InitArgs ==
    /\ ArgsInit /\ batch_size = 1
    /\ LifeIdle /\ StreamIdle /\ ExecIdle /\ ConfigIdle /\ DelayIdle /\ BreakerIdle /\ EnvIdle /\ ServerIdle /\ ServiceIdle

SpecArgs == InitArgs /\ [][ArgsNext]_vars

\* replace_config_args has returned.
ArgsDone == apass = Passes + 1


\* ============================================================= SpecEnv
\* One call of replace_env_vars (config.py 150-171). A text is a sequence
\* of tokens: literal text, or the expression ${name}.

EnvExpr(n) == <<"env", n>>

\* names written inside ${ }
VarNames == {"a", "A", "B"}

\* var_name.upper()
Upper(n) == IF n = "a" THEN "A" ELSE n

EnvNone == << <<"None">> >>

\* the values a variable of the environment can have
EnvValues == {EnvNone, <<Lit("v")>>, <<EnvExpr("A")>>, <<EnvExpr("B")>>}

EnvTokens == {Lit("x")} \cup {EnvExpr(n) : n \in VarNames}

EnvTexts == UNION {[1..n -> EnvTokens] : n \in 1..MaxText}

IsEnvExpr(t) == t[1] = "env"

\* env_re.finditer / env_re.findall: the expressions of a text, in order
EnvFind(text) == SelectSeq(text, IsEnvExpr)

\* replace_env_vars is called; finditer is bound to the text as passed in
EnvInit ==
    /\ config_json \in EnvTexts
    /\ environ \in [{Upper(n) : n \in VarNames} -> EnvValues]
    /\ env_result = config_json
    /\ env_matches = EnvFind(config_json)
    /\ env_pc = "scan"

\* one iteration of `for match in env_re.finditer(result)`
EnvReplace ==
    /\ env_pc = "scan"
    /\ env_matches # <<>>
    /\ LET expr == Head(env_matches)
           value == environ[Upper(expr[2])]
       IN  env_result' = IF value # EnvNone
                         THEN Replace(env_result, expr, value)
                         ELSE env_result
    /\ env_matches' = Tail(env_matches)
    /\ UNCHANGED <<config_json, environ, env_pc, notEnv>>

\* the assertion left out
EnvReturnUnchecked ==
    /\ env_pc = "scan"
    /\ env_matches = <<>>
    /\ env_pc' = "returned"
    /\ UNCHANGED <<config_json, environ, env_matches, env_result, notEnv>>


\* the assertion holds: return result
EnvReturn ==
    /\ env_pc = "scan"
    /\ env_matches = <<>>
    /\ EnvFind(env_result) = <<>>
    /\ env_pc' = "returned"
    /\ UNCHANGED <<config_json, environ, env_matches, env_result, notEnv>>

\* assert len(missing_env_vars) == 0 fails
EnvAssertionError ==
    /\ env_pc = "scan"
    /\ env_matches = <<>>
    /\ EnvFind(env_result) # <<>>
    /\ env_pc' = "AssertionError"
    /\ UNCHANGED <<config_json, environ, env_matches, env_result, notEnv>>

EnvNext == EnvReplace \/ EnvReturn \/ EnvAssertionError

InitEnv ==
    /\ EnvInit /\ batch_size = 1
    /\ LifeIdle /\ StreamIdle /\ ExecIdle /\ ConfigIdle /\ DelayIdle /\ BreakerIdle /\ ArgsIdle /\ ServiceIdle /\ ServerIdle

SpecEnv == InitEnv /\ [][EnvNext]_vars


\* ========================================================== SpecServer
\* One Server (engine.py 750-796): start_app calls, which suspend while the
\* AppEngine starts.

AppNames == {"app", "plugin"}
AppVersions == {"1", "2"}

\* AppConfig.app_key(): "<name>.<version>"
AppKey(name, version) == <<name, version>>

AppKeys == {AppKey(n, v) : n \in AppNames, v \in AppVersions}

\* app_config: the application and the app keys of its plugins
AppConfigs ==
    [key : AppKeys, plugins : {<<>>} \cup {<<k>> : k \in AppKeys}]

StartCalls == 1..MaxStarts

NoAppConfig == [key |-> <<>>, plugins |-> <<>>]

\* Server.__init__
ServerInit ==
    /\ app_engines = [k \in {} |-> <<>>]
    /\ scall = [c \in StartCalls |-> [pc |-> "idle", app_config |-> NoAppConfig]]

\* the plugins are taken as given, without the registry
PluginsAssumed(app_config) == TRUE

\* self.app_engine(app_key=...) for every plugin: self.app_engines[app_key]
PluginsRegistered(app_config) ==
    \A i \in 1..Len(app_config.plugins) : app_config.plugins[i] \in DOMAIN app_engines

\* start_app up to `await AppEngine(...).start()`: plugins resolved
StartApp(c, app_config) ==
    /\ scall[c].pc = "idle"
    /\ PluginsRegistered(app_config)
    /\ scall' = [scall EXCEPT ![c] = [pc |-> "starting", app_config |-> app_config]]
    /\ UNCHANGED <<app_engines, notServer>>

\* self.app_engines[app_key] raises KeyError for a plugin
StartAppKeyError(c, app_config) ==
    /\ scall[c].pc = "idle"
    /\ ~PluginsRegistered(app_config)
    /\ scall' = [scall EXCEPT ![c] = [pc |-> "KeyError", app_config |-> app_config]]
    /\ UNCHANGED <<app_engines, notServer>>

\* AppEngine.start() has returned: self.app_engines[app_config.app_key()] = app_engine
StartAppRegisters(c) ==
    /\ scall[c].pc = "starting"
    /\ app_engines' =
          [k \in DOMAIN app_engines \cup {scall[c].app_config.key} |->
              IF k = scall[c].app_config.key THEN scall[c].app_config.plugins
              ELSE app_engines[k]]
    /\ scall' = [scall EXCEPT ![c].pc = "registered"]
    /\ UNCHANGED notServer

\* AppEngine.start() raises (for instance mgr.connect fails)
StartAppStartRaises(c) ==
    /\ scall[c].pc = "starting"
    /\ scall' = [scall EXCEPT ![c].pc = "raised"]
    /\ UNCHANGED <<app_engines, notServer>>

ServerNext ==
    \E c \in StartCalls :
        \/ \E app_config \in AppConfigs : StartApp(c, app_config)
        \/ \E app_config \in AppConfigs : StartAppKeyError(c, app_config)
        \/ StartAppRegisters(c)
        \/ StartAppStartRaises(c)

InitServer ==
    /\ ServerInit /\ batch_size = 1
    /\ LifeIdle /\ StreamIdle /\ ExecIdle /\ ConfigIdle /\ DelayIdle /\ BreakerIdle /\ ArgsIdle /\ ServiceIdle /\ EnvIdle

SpecServer == InitServer /\ [][ServerNext]_vars


\* ========================================================= SpecService
\* The contexts of service_loop runs of one AppEngine (engine.py 567-591,
\* 628-642). uuid.uuid4() is a value never drawn before; the clock moves
\* between the steps.

ServiceRuns == 1..MaxRuns

\* the uuid4 values _service_event_context draws
UuidsDrawn(previous_context) == IF previous_context = <<>> THEN 2 ELSE 1

\* EventContext: the immutable bundle keeps the three standard track ids
\* it is constructed with
EventContext(track_ids) ==
    [request_id |-> track_ids.request_id, request_ts |-> track_ids.request_ts,
     operation_id |-> track_ids.operation_id]

\* a context built without looking at the previous one
ServiceEventContextFresh(previous_context, now, uuids) ==
    EventContext([request_id |-> uuids + 1, request_ts |-> now, operation_id |-> uuids + 2])

\* _service_event_context: track_ids of the new context; previous_context
\* is <<>> for None
ServiceEventContext(previous_context, now, uuids) ==
    LET track_ids == IF previous_context = <<>>
                     THEN [request_id |-> uuids + 1, request_ts |-> now]
                     ELSE previous_context
    IN  EventContext([request_id |-> track_ids.request_id,
                      request_ts |-> track_ids.request_ts,
                      operation_id |-> uuids + UuidsDrawn(previous_context)])

\* the invocations made so far by the runs in rs
RECURSIVE Invocations(_)
Invocations(rs) ==
    IF rs = {} THEN 0
    ELSE LET r == CHOOSE x \in rs : TRUE
         IN  Len(svc_invocations[r]) + Invocations(rs \ {r})

ServiceInit ==
    /\ svc_pc = [r \in ServiceRuns |-> "idle"]
    /\ svc_context = [r \in ServiceRuns |-> <<>>]
    /\ svc_invocations = [r \in ServiceRuns |-> <<>>]
    /\ uuid_count = 0
    /\ utc_now = 0

\* time passes
ClockTick ==
    /\ utc_now < MaxClock
    /\ utc_now' = utc_now + 1
    /\ UNCHANGED <<svc_pc, svc_context, svc_invocations, uuid_count, notService>>

\* service_loop after its start-up sleep: the root context
ServiceRootContext(r) ==
    /\ svc_pc[r] = "idle"
    /\ svc_context' = [svc_context EXCEPT ![r] = ServiceEventContext(<<>>, utc_now, uuid_count)]
    /\ uuid_count' = uuid_count + UuidsDrawn(<<>>)
    /\ svc_pc' = [svc_pc EXCEPT ![r] = "loop"]
    /\ UNCHANGED <<svc_invocations, utc_now, notService>>

\* the generator yields a payload: the context is derived from the
\* previous one and execute is invoked with it
ServiceInvoke(r) ==
    /\ svc_pc[r] = "loop"
    /\ Invocations(ServiceRuns) < MaxPayloads
    /\ LET context == ServiceEventContext(svc_context[r], utc_now, uuid_count)
       IN  /\ svc_context' = [svc_context EXCEPT ![r] = context]
           /\ svc_invocations' = [svc_invocations EXCEPT ![r] = Append(@, context)]
    /\ uuid_count' = uuid_count + UuidsDrawn(svc_context[r])
    /\ UNCHANGED <<svc_pc, utc_now, notService>>

\* the generator is exhausted or the token was released: the run ends
ServiceReturns(r) ==
    /\ svc_pc[r] = "loop"
    /\ svc_pc' = [svc_pc EXCEPT ![r] = "done"]
    /\ UNCHANGED <<svc_context, svc_invocations, uuid_count, utc_now, notService>>

ServiceNext ==
    \/ ClockTick
    \/ \E r \in ServiceRuns : ServiceRootContext(r)
    \/ \E r \in ServiceRuns : ServiceInvoke(r)
    \/ \E r \in ServiceRuns : ServiceReturns(r)

InitService ==
    /\ ServiceInit /\ batch_size = 1
    /\ LifeIdle /\ StreamIdle /\ ExecIdle /\ ConfigIdle /\ DelayIdle /\ BreakerIdle /\ ArgsIdle /\ EnvIdle /\ ServerIdle

SpecService == InitService /\ [][ServiceNext]_vars


\* ------------------------------------------------------------ claims on Spec

\* C1: at any time at most one read_stream driver loop per STREAM event is
\* active (between acquiring the event's token and returning), in every
\* interleaving of read_stream, stop_event and stop.
C1_OneLoopPerEvent ==
    \A e \in Events : Cardinality({c \in Calls : ev[c] = e /\ InLoop(c)}) <= 1

\* C5: once stop_event(e) has released the token while a read_stream(e) loop
\* was inside a read cycle, that loop starts no further _read_stream_cycle.
C5_NoCycleAfterStop ==
    \A c \in Calls : ~cycleAfterStop[c]

\* C6: stop() releases the token of every event running when it is called;
\* the Stream Manager is closed only after those releases and after the
\* grace sleep of read_stream_timeout + 5000 ms; downstream connections are
\* released only after the Stream Manager is closed.
C6_StopOrder ==
    /\ [][stopPc = "idle" /\ stopPc' # "idle"
            => /\ \A e \in Events : running[e] => ~running'[e]
               /\ stopReleased' = {e \in Events : running[e]}]_vars
    /\ [](stream_manager = "closed"
            => /\ stopPc \in {"connections", "done"}
               /\ stopReleased = runningAtStop
               /\ sleptMs = read_stream_timeout + 5000)
    /\ [](connsStopped /\ stream_manager # "none" => stream_manager = "closed")

C6_Witness ==
    /\ stopPc = "done"
    /\ connsStopped
    /\ stream_manager = "closed"
    /\ runningAtStop = Events

\* ------------------------------------------------------ claims on SpecStream

Failed(m) == tout[m] \in {"error", "timeout", "cancelled"}

\* _execute_event of m has returned normally (the ack call followed).
ExecCompleted(m) == tpc[m] = "acking" \/ tout[m] = "ok" \/ failedAt[m] = "acking"

\* C2: a message whose _execute_event completes without error or timeout
\* gets exactly one ack_read_stream, on the stream it was read from and
\* with the event's consumer group; no message is acknowledged twice.
C2_AckExactlyOnce ==
    \A m \in Msgs :
        /\ Len(acks[m]) <= 1
        /\ ExecCompleted(m) =>
              /\ Len(acks[m]) = 1
              /\ acks[m][1].stream_name =
                    IF ReadQueues[msgStream[m]] = AUTO
                    THEN <<read_stream_name>>
                    ELSE <<read_stream_name, ReadQueues[msgStream[m]]>>
              /\ acks[m][1].consumer_group = consumer_group

C2_Witness ==
    \E m \in Msgs :
        /\ tout[m] = "ok"
        /\ msgStream[m] = 2
        /\ Len(acks[m]) = 1
        /\ m \notin pending

\* C3 as stated: a message whose invocation raises, is cancelled or times
\* out has no ack_read_stream issued for it, whatever step was in progress
\* (handler, outbound write, acknowledgement call).
C3_NoAckWhenFailed ==
    \A m \in Msgs : Failed(m) => acks[m] = <<>>

\* C3 amended: a message whose invocation raises, is cancelled or times out
\* during the handler execution or an outbound write has no ack_read_stream
\* issued for it (a failure that strikes the acknowledgement call itself
\* comes after the one ack was issued).
C3_NoAckWhenExecFailed ==
    \A m \in Msgs :
        Failed(m) /\ failedAt[m] \in {"handler", "write"} => acks[m] = <<>>

C3_Witness ==
    \E m \in Msgs :
        /\ tout[m] = "timeout"
        /\ failedAt[m] = "write"
        /\ acks[m] = <<>>
        /\ m \in pending

\* C4: a message read and left unacknowledged (failed or timed out) is
\* eventually delivered again to the read loop, which keeps cycling.
C4_Redelivered ==
    \A m \in Msgs :
        (tpc[m] = "done" /\ Failed(m) /\ m \in pending) ~> (deliveries[m] >= 2)

\* -------------------------------------------------------- claims on SpecExec

NonNull(s) == {i \in 1..Len(s) : s[i] # None}

\* The payloads written in the flush numbered k.
FlushItems(k) == {writes[j].payload : j \in {i \in 1..Len(writes) : writes[i].flush = k}}

\* Every flush holds exactly batch_size items, except that the last one may
\* hold fewer.
FlushShape ==
    \A k \in 1..flushes :
        IF k < flushes
        THEN Cardinality(FlushItems(k)) = batch_size
        ELSE Cardinality(FlushItems(k)) \in 1..batch_size

\* C7 as stated: an invocation whose handler yields N (non-null) results,
\* with writeStream configured, makes exactly N outbound writes, in flushes
\* of exactly batch_size items but for at most one smaller final flush.
C7_NWrites ==
    caller = "returned" /\ write_stream # <<>> =>
        /\ Len(writes) = Cardinality(NonNull(yielded))
        /\ FlushShape

\* C7 amended: such an invocation writes every non-null result exactly once
\* to each configured queue of the writeStream (N results and Q queues give
\* N * Q stream_manager.write_stream calls), the results leaving in flushes
\* of exactly batch_size items but for at most one smaller final flush.
C7_NWritesPerQueue ==
    caller = "returned" /\ write_stream # <<>> =>
        /\ Len(writes) = Cardinality(NonNull(yielded)) * Len(write_stream[1].queues)
        /\ \A i \in NonNull(yielded), k \in 1..Len(write_stream[1].queues) :
              Cardinality({j \in 1..Len(writes) :
                              /\ writes[j].payload = yielded[i]
                              /\ writes[j].configured_queue
                                    = write_stream[1].queues[k]}) = 1
        /\ FlushShape

C7_Witness ==
    /\ caller = "returned"
    /\ write_stream # <<>>
    /\ Len(write_stream[1].queues) = 2
    /\ batch_size = 2
    /\ Cardinality(NonNull(yielded)) = 3
    /\ flushes = 2
    /\ Len(writes) = 6

RECURSIVE LastNonNull(_)
LastNonNull(s) ==
    IF s = <<>> THEN None
    ELSE IF s[Len(s)] # None THEN s[Len(s)]
    ELSE LastNonNull(SubSeq(s, 1, Len(s) - 1))

\* C8 as stated: execute returns the last non-null value the handler
\* yielded, and null only when it yielded no non-null value.
C8_LastNonNull ==
    via = "execute" /\ caller = "returned" => retval = LastNonNull(yielded)

\* C8 amended: execute returns the last value the handler yielded, null or
\* not, and null when the handler yielded nothing.
C8_LastYielded ==
    via = "execute" /\ caller = "returned" =>
        retval = IF yielded = <<>> THEN None ELSE yielded[Len(yielded)]

C8_Witness ==
    /\ via = "execute"
    /\ caller = "returned"
    /\ Len(yielded) >= 2
    /\ yielded[Len(yielded)] = None
    /\ NonNull(yielded) # {}
    /\ retval = None

\* C9: when execute exceeds response_timeout a TimeoutError is raised to the
\* caller and _execute_event is cancelled: from then on no result is pulled
\* from the handler and no outbound write is issued or left in flight.
C9_TimeoutCancels ==
    /\ [](via = "execute" /\ caller = "TimeoutError" =>
            /\ epc = "cancelled"
            /\ \A i \in 1..Len(wq) : ~InFlight(i))
    /\ [][via = "execute" /\ caller = "TimeoutError" =>
            /\ yielded' = yielded
            /\ writes' = writes]_vars

C9_Witness ==
    /\ via = "execute"
    /\ caller = "TimeoutError"
    /\ Len(yielded) < MaxYield
    /\ writes # <<>>
    /\ \E i \in 1..Len(wq) : wq[i] = 0

\* C10: for each configured queue c, base name b, upstream queue u and
\* strategy s, the write goes to b.u when u is not AUTO, c is AUTO and s is
\* PROPAGATE; otherwise to b.c when c is not AUTO; otherwise to b.
C10_StreamName ==
    \A j \in 1..Len(writes) :
        LET b == write_stream[1].name
            s == write_stream[1].queue_strategy
            c == writes[j].configured_queue
            u == queue
        IN writes[j].stream_name =
              IF u # AUTO /\ c = AUTO /\ s = "PROPAGATE" THEN <<b, u>>
              ELSE IF c # AUTO THEN <<b, c>>
              ELSE <<b>>

\* upstream high-prio, queues [AUTO], PROPAGATE: the write goes to out.hp
C10_Witness ==
    /\ queue = "hp"
    /\ write_stream = <<[name |-> "out", queues |-> <<AUTO>>,
                         queue_strategy |-> "PROPAGATE"]>>
    /\ \E j \in 1..Len(writes) : writes[j].stream_name = <<"out", "hp">>

\* C11: the queue label stamped into every outbound message is the
\* configured queue when queue_strategy is DROP and the upstream queue
\* otherwise; the upstream queue of a stream invocation is the label carried
\* inside the consumed message (not the suffix of the stream it was read
\* from) and is AUTO for request and service invocations.
C11_QueueLabel ==
    \A j \in 1..Len(writes) :
        writes[j].queue =
            IF write_stream[1].queue_strategy = "DROP"
            THEN writes[j].configured_queue
            ELSE IF via = "stream" THEN msg_queue ELSE AUTO

\* a message labelled hp consumed from the bare stream, PROPAGATE: label hp
C11_Witness ==
    /\ via = "stream"
    /\ msg_queue = "hp"
    /\ consumed_queue = AUTO
    /\ write_stream # <<>>
    /\ write_stream[1].queue_strategy = "PROPAGATE"
    /\ \E j \in 1..Len(writes) : writes[j].queue = "hp"

\* C12 as stated: with PROPAGATE, for every configured queue, the outbound
\* stream name is the bare writeStream name when the upstream queue is AUTO
\* and is suffixed with the upstream queue when it is not.
C12_Propagate ==
    \A j \in 1..Len(writes) :
        write_stream[1].queue_strategy = "PROPAGATE" =>
            writes[j].stream_name =
                IF queue = AUTO
                THEN <<write_stream[1].name>>
                ELSE <<write_stream[1].name, queue>>

\* C12 amended: with PROPAGATE, for every configured queue that is AUTO,
\* the outbound stream name is the bare writeStream name when the upstream
\* queue is AUTO and is suffixed with the upstream queue when it is not; for
\* a configured queue other than AUTO the name is suffixed with the
\* configured queue, whatever the upstream queue.
C12_PropagateAuto ==
    \A j \in 1..Len(writes) :
        write_stream[1].queue_strategy = "PROPAGATE" =>
            writes[j].stream_name =
                IF writes[j].configured_queue # AUTO
                THEN <<write_stream[1].name, writes[j].configured_queue>>
                ELSE IF queue = AUTO
                     THEN <<write_stream[1].name>>
                     ELSE <<write_stream[1].name, queue>>

\* PROPAGATE on queues [AUTO, low] with upstream hp: out.hp and out.low
C12_Witness ==
    /\ write_stream = <<[name |-> "out", queues |-> <<AUTO, "low">>,
                         queue_strategy |-> "PROPAGATE"]>>
    /\ queue = "hp"
    /\ \E j \in 1..Len(writes) : writes[j].stream_name = <<"out", "hp">>
    /\ \E j \in 1..Len(writes) : writes[j].stream_name = <<"out", "low">>

\* C14: an error or cancellation raised while processing one message of a
\* cycle is returned as that message's outcome and never propagates out of
\* _process_stream_event: the loop is not ended by it, the tasks of the
\* other messages of the cycle are left as they are (they go on to be
\* processed and acknowledged), the gather of the cycle returns only when
\* every message of the cycle has its outcome, and read_stream then goes on
\* to the next cycle.
C14_ErrorIsReturned ==
    /\ [](spc \in {"read", "gather"})
    /\ [][\A m \in Msgs :
            tout[m] = "none" /\ tout'[m] \in {"error", "timeout", "cancelled"} =>
                /\ tpc'[m] = "done"
                /\ \A m2 \in Msgs \ {m} :
                      /\ tpc'[m2] = tpc[m2]
                      /\ tout'[m2] = tout[m2]
                      /\ acks'[m2] = acks[m2]]_vars
    /\ [][spc = "gather" /\ spc' # "gather" =>
            /\ spc' = "read"
            /\ \A m \in Range(cycBatch) : tout[m] # "none"]_vars

\* two messages of one cycle: one failed in its handler, the other
\* processed and acknowledged
C14_Witness ==
    \E m \in Range(cycBatch), m2 \in Range(cycBatch) :
        /\ tout[m] \in {"error", "cancelled"}
        /\ failedAt[m] = "handler"
        /\ acks[m] = <<>>
        /\ tout[m2] = "ok"
        /\ Len(acks[m2]) = 1
        /\ m2 \notin pending

C13_ReadFailureSurvived ==
    \A c \in Calls : outcome[c] # "StreamOSError"

\* C17: after stop_event(e) has released the token of a running
\* service_loop(e) during an execution, that loop invokes execute for no
\* further generator payload, whether the execution in progress succeeds
\* or fails.
C17_NoExecuteAfterStop ==
    \A c \in Calls : ~execAfterStop[c]

C20_ReleasedWhenEnded ==
    [][\A c \in Calls :
          InLoop(c) /\ pc'[c] = "done" => ~running'[ev[c]]]_vars

\* ------------------------------------------------------ claims on SpecConfig

\* C16 as stated: for every value of enabled_groups, the effective events
\* hold an event for every declared event whose group is the default group
\* or is listed in enabled_groups, and none for a declared event whose
\* group is neither.
C16_EffectiveIffEnabled ==
    ConfigDone =>
        \A d \in Range(DeclaredEvents) :
            (\E x \in effective_events : x.of = d)
                <=> (\/ app_events[d].group = DEFAULT_GROUP
                     \/ app_events[d].group \in enabled_groups)

\* C16 amended: the same for every value of enabled_groups that is not
\* empty; with an empty enabled_groups every declared event has an
\* effective event, whatever its group.
C16_EffectiveIffEnabledOrAll ==
    ConfigDone =>
        \A d \in Range(DeclaredEvents) :
            (\E x \in effective_events : x.of = d /\ x.name = <<d>>)
                <=> (\/ enabled_groups = {}
                     \/ app_events[d].group = DEFAULT_GROUP
                     \/ app_events[d].group \in enabled_groups)

\* enabled_groups [g1]: the event of g1 and its stage are there, the event
\* of g2 is not
C16_Witness ==
    /\ ConfigDone
    /\ enabled_groups = {"g1"}
    /\ app_events["a"].group = "g1"
    /\ app_events["a"].stages = 2
    /\ app_events["b"].group = "g2"
    /\ {x.name : x \in effective_events} = {<<"a">>, <<"a", 2>>}

\* ------------------------------------------- claims on SpecExec (continued)

\* C21: during the execution of an event whose descriptor declares no
\* write_stream no stream_manager.write_stream call is issued, on the
\* request and service path (execute) and on the stream path alike,
\* whatever the number of results the handler yields.
C21_NoWriteWithoutWriteStream ==
    write_stream = <<>> => writes = <<>> /\ wq = <<>>

\* a stream invocation without write_stream that yielded more results than
\* batch_size and returned
C21_Witness ==
    /\ write_stream = <<>>
    /\ via = "stream"
    /\ caller = "returned"
    /\ batch_size = 1
    /\ Cardinality(NonNull(yielded)) = 3

\* The payloads of the writes of flush k to the j-th configured queue, in
\* the order in which the writes were issued.
FlushOrder(k, j) ==
    LET sel == SelectSeq(writes, LAMBDA w :
                   w.flush = k /\ w.configured_queue = write_stream[1].queues[j])
    IN [i \in 1..Len(sel) |-> sel[i].payload]

\* The non-null results in the order in which the handler yielded them.
YieldOrder == SelectSeq(yielded, LAMBDA v : v # None)

\* C22: within one invocation of _execute_event no result is pulled from
\* the handler and no write of another batch starts while a write of a
\* flushed batch is in flight, and the items of each flush are the results
\* that follow those of the flush before it, in the order in which they
\* were yielded.
C22_FlushesSequential ==
    /\ [][(yielded' # yielded \/ flushes' # flushes) =>
              \A i \in 1..Len(wq) : ~InFlight(i)]_vars
    /\ [](write_stream # <<>> =>
             \A k \in 1..flushes :
                 LET first == FlushOrder(k, 1)
                     before == (k - 1) * batch_size
                 IN /\ first # <<>>
                    /\ \A i \in 1..Len(first) :
                          /\ before + i <= Len(YieldOrder)
                          /\ first[i] = YieldOrder[before + i])

\* the second flush of an invocation with two configured queues, its write
\* to the second queue in flight
C22_Witness ==
    /\ flushes = 2
    /\ epc = "flush"
    /\ write_stream # <<>>
    /\ Len(write_stream[1].queues) = 2
    /\ InFlight(1)
    /\ wq[1] = 2

\* ----------------------------------------- claims on SpecStream (continued)

\* C23: every write issued while a stream message is processed carries the
\* track_ids and the auth_info of the EventContext created for that message
\* (the track_ids of its StreamEvent, the stream_auth_info of its
\* auth_info), also when several messages of a cycle are processed
\* concurrently; the track_ids of a message are on no write of another.
C23_WritesCarryOwnContext ==
    \A m \in Msgs :
        wmeta[m] # <<>> =>
            /\ wmeta[m][1].track_ids = StreamEventTrackIds(m, taskStream[m])
            /\ wmeta[m][1].auth_info = <<"stream_auth_info", msgAuth[m]>>
            /\ \A n \in Msgs \ {m} :
                  ctx[n] # <<>> => wmeta[m][1].track_ids # ctx[n][1].track_ids

\* two messages of different users read in one cycle, the writes of both
\* in flight at the same time
C23_Witness ==
    /\ Len(cycBatch) = 2
    /\ \A m \in Range(cycBatch) : tpc[m] = "write" /\ wmeta[m] # <<>>
    /\ msgAuth[cycBatch[1]] # msgAuth[cycBatch[2]]

\* ------------------------------------------------------- claims on SpecDelay

\* C24 as stated: for delay_auto_start_seconds = d > 0 the delay that
\* read_stream and service_loop sleep is in [d/2, d + d/2) seconds,
\* whatever the draws.
C24_DelayInHalfOpenInterval ==
    dpc \in {"sleep", "started"} /\ delay_auto_start_seconds > 0 =>
        /\ 2 * wait >= delay_auto_start_seconds
        /\ 2 * wait < 3 * delay_auto_start_seconds

\* C24 amended: for d > 0 the delay is a whole number of seconds in the
\* closed interval [0, d + int(d/2)], whatever the draws.
C24_DelayInClosedInterval ==
    dpc \in {"sleep", "started"} /\ delay_auto_start_seconds > 0 =>
        /\ wait >= 0
        /\ wait <= delay_auto_start_seconds + (delay_auto_start_seconds \div 2)

\* d = 4 and the draws 0 and 2: service_loop sleeps 0 seconds
C24_Witness ==
    /\ dcallee = "service_loop"
    /\ dpc = "started"
    /\ delay_auto_start_seconds = 4
    /\ draws = <<0, 2>>
    /\ wait = 0

\* ------------------------------------- claims on SpecLoops (continued)

\* C25: a read_stream(e, test_mode=True) call that has begun its read cycle
\* ends at the end of that cycle by returning (the outcome of the last
\* message, null when nothing was read), e's token released so that
\* is_running(e) is false on return.
C25_TestModeOneCycle ==
    [][\A c \in Calls :
          /\ callee[c] = "read_stream"
          /\ test_mode[c]
          /\ InCycle(c)
          /\ pc'[c] = "done"
          => /\ outcome'[c] = "returned"
             /\ ~running'[ev[c]]]_vars

\* A message task that has been started and has not ended.
TaskActive(m) == tpc[m] \in {"handler", "write", "acking"}

\* C26: no read of a cycle is issued or in flight while a message task is
\* active: the tasks of a cycle have all ended (acknowledged, failed or
\* timed out) before the first read of the next cycle is issued, and the
\* active tasks are all tasks of the current cycle.
C26_CyclesSequential ==
    /\ spc = "read" => \A m \in Msgs : ~TaskActive(m)
    /\ \A m \in Msgs : TaskActive(m) \/ tpc[m] = "created" => m \in Range(cycBatch)

\* the task of the second cycle is running, the task of the first has ended
C26_Witness ==
    /\ spc = "gather"
    /\ \E m \in Msgs : tpc[m] = "done" /\ m \notin Range(cycBatch)
    /\ \E m \in Range(cycBatch) : TaskActive(m)

RECURSIVE Flatten(_)
Flatten(ss) == IF ss = <<>> THEN <<>> ELSE Head(ss) \o Flatten(Tail(ss))

\* C27: the reads of a cycle are one per declared queue, issued in declared
\* order with offset ">", each on the stream named after its queue (the
\* bare name for AUTO, name.queue otherwise); the events these reads
\* return, in read order, are the batch of the cycle, whose tasks are
\* started together once the last read has returned.
C27_OneReadPerQueue ==
    spc \in {"read", "gather"} =>
        /\ Len(cycReads) = (IF spc = "gather" THEN NQ ELSE sq)
        /\ \A i \in 1..Len(cycReads) :
              /\ cycReads[i].offset = ">"
              /\ cycReads[i].stream_name =
                    IF ReadQueues[i] = AUTO THEN <<read_stream_name>>
                    ELSE <<read_stream_name, ReadQueues[i]>>
        /\ Len(cycGot) = (IF spc = "gather" THEN NQ ELSE sq - 1)
        /\ cycBatch = Flatten(cycGot)
        /\ \A m \in Range(cycBatch) :
              IF spc = "gather" THEN tpc[m] \notin {"none", "created"}
              ELSE tpc[m] = "created"

\* both queues have returned a message: the batch holds the two
C27_Witness ==
    /\ spc = "gather"
    /\ Len(cycReads) = 2
    /\ Len(cycGot) = 2
    /\ Len(cycGot[1]) = 1
    /\ Len(cycGot[2]) = 1
    /\ Len(cycBatch) = 2

\* ------------------------------------------- claims on Spec (continued)

\* C28: read_stream calls ensure_consumer_group for each declared queue in
\* turn before its first read; after a StreamOSError it repeats the call
\* for the same queue unless the token has been released; a call that
\* issues a read has seen ensure_consumer_group succeed for every declared
\* queue.
C28_EnsureBeforeRead ==
    /\ [](\A c \in Calls :
            /\ InCycle(c) => ensured[c] = 1..Len(ReadQueues)
            /\ pc[c] = "ensure" => ensured[c] = 1..(qi[c] - 1))
    /\ [][\A c \in Calls :
            pc[c] = "ensure" /\ (pc'[c] # "ensure" \/ qi'[c] # qi[c])
                => qi[c] \in ensured'[c] \/ ~running[ev[c]]]_vars

\* a call is reading its second queue, the consumer group of every queue
\* ensured
C28_Witness ==
    \E c \in Calls :
        /\ pc[c] = "read"
        /\ qi[c] = 2
        /\ running[ev[c]]
        /\ ensured[c] = 1..Len(ReadQueues)

\* ----------------------------------------------------- claims on SpecBreaker

\* The number of consecutive failures that end the first n attempts.
RECURSIVE TrailingFailures(_)
TrailingFailures(n) ==
    IF n = 0 \/ attempts[n].outcome # "StreamOSError" THEN 0
    ELSE 1 + TrailingFailures(n - 1)

\* 1, 2, 4, 8, 8, ... seconds after 1, 2, 3, 4, 5, ... consecutive failures
DelayAfter(k) == IF k = 0 THEN 0 ELSE IF k >= 4 THEN 8 ELSE 2 ^ (k - 1)

\* C29: with num_failures_open_circuit_breaker = 1, initial_backoff_seconds
\* = 1 and max_backoff_seconds = 8, the call that follows k consecutive
\* failures is delayed by 1, 2, 4, 8, 8 seconds for k = 1..5 (never by more
\* than 8), and after a successful call the failure counter and the
\* back-off are at their initial values: the next call is not delayed.
C29_BackoffSequence ==
    (/\ bpc # "idle"
     /\ streams.num_failures_open_circuit_breaker = 1
     /\ streams.initial_backoff_seconds = 1
     /\ streams.max_backoff_seconds = 8)
    => /\ \A n \in 1..Len(attempts) :
             attempts[n].slept = DelayAfter(TrailingFailures(n - 1))
       /\ bpc = "ready" =>
             /\ backoff = DelayAfter(TrailingFailures(Len(attempts)))
             /\ failure_count = TrailingFailures(Len(attempts))

\* five failures, the sixth call delayed by 8 seconds
C29_Witness ==
    /\ streams = [initial_backoff_seconds |-> 1, max_backoff_seconds |-> 8,
                  num_failures_open_circuit_breaker |-> 1]
    /\ Len(attempts) = 6
    /\ [n \in 1..6 |-> attempts[n].slept] = <<0, 1, 2, 4, 8, 8>>
    /\ \A n \in 1..5 : attempts[n].outcome = "StreamOSError"

\* -------------------------------------------------------- claims on SpecArgs

\* The string the references of field f stand for in the configuration
\* as given: text stays, {auto} is the object path of the field that
\* holds it, a placeholder is the string its field stands for. A
\* reference that goes round in a circle leaves the token "circular".
RECURSIVE Expand(_, _, _)
Expand(value, f, hops) ==
    IF value = <<>> THEN <<>>
    ELSE LET t == Head(value)
         IN  (IF t = Auto THEN <<ThisPath(f)>>
              ELSE IF t[1] # "expr" THEN <<t>>
              ELSE IF hops >= MaxFields THEN << <<"circular">> >>
              ELSE Expand(given[t[2]], t[2], hops + 1))
             \o Expand(Tail(value), f, hops)

Stands(f) == Expand(given[f], f, 0)

\* C30: after replace_config_args every string field that held the
\* placeholder of a field holds the value of that field, and a chain of
\* references that ends in text or in {auto} is resolved to that text or
\* object path, whatever the order in which the fields are visited.
C30_PlaceholdersResolved ==
    ArgsDone =>
        \A f \in Fields :
            ~Contains(Stands(f), <<"circular">>) =>
                /\ parsed_config[f] = Stands(f)
                /\ \A g \in Fields :
                      given[f] = <<Placeholder(g)>> => parsed_config[f] = parsed_config[g]

\* a chain of two references that ends in {auto}, the field with {auto}
\* visited last: all three fields hold the object path
C30_Witness ==
    /\ ArgsDone
    /\ \E f, g, h \in Fields :
          /\ visit_order = <<f, g, h>> \o SubSeq(visit_order, 4, MaxFields)
          /\ given[f] = <<Placeholder(g)>>
          /\ given[g] = <<Placeholder(h)>>
          /\ given[h] = <<Auto>>
          /\ \A k \in {f, g, h} : parsed_config[k] = <<ThisPath(h)>>

\* --------------------------------------------------------- claims on SpecEnv

\* the text with every expression whose variable is set replaced by the
\* value of the variable
RECURSIVE EnvSubstituted(_)
EnvSubstituted(text) ==
    IF text = <<>> THEN <<>>
    ELSE LET t == Head(text)
         IN  (IF IsEnvExpr(t) /\ environ[Upper(t[2])] # EnvNone
              THEN environ[Upper(t[2])] ELSE <<t>>)
             \o EnvSubstituted(Tail(text))

\* a variable named by an expression of the text is not set
EnvMissing(text) ==
    \E i \in 1..Len(text) : IsEnvExpr(text[i]) /\ environ[Upper(text[i][2])] = EnvNone

\* C31: replace_env_vars replaces every ${VAR} by the value of the
\* environment variable VAR and returns a text without ${...}, or fails
\* with an assertion error when a referenced variable is not set; it never
\* returns a text with an unresolved ${...}.
C31_ReplacedOrAssertion ==
    /\ env_pc = "returned" =>
          /\ EnvFind(env_result) = <<>>
          /\ env_result = EnvSubstituted(config_json)
    /\ env_pc = "AssertionError" => EnvMissing(config_json)

\* no variable named by an expression of the text has a value that itself
\* holds an expression
EnvPlainValues(text) ==
    \A i \in 1..Len(text) :
        IsEnvExpr(text[i]) => EnvFind(environ[Upper(text[i][2])]) = <<>>

\* C31 (amended): replace_env_vars never returns a text with an unresolved
\* ${...}; when no value of a referenced variable itself holds a ${...}
\* expression, it returns the text with every ${VAR} replaced by the value
\* of VAR, and it fails with an assertion error exactly when a referenced
\* variable is not set.
C31_ReplacedOrAssertionPlainValues ==
    /\ env_pc = "returned" => EnvFind(env_result) = <<>>
    /\ EnvPlainValues(config_json) =>
          /\ env_pc = "returned" => env_result = EnvSubstituted(config_json)
          /\ env_pc = "AssertionError" => EnvMissing(config_json)
          /\ (env_pc # "scan" /\ EnvMissing(config_json)) => env_pc = "AssertionError"

\* ${a} and ${B} are both replaced by the values of A and B
C31_Witness ==
    /\ env_pc = "returned"
    /\ config_json = <<EnvExpr("a"), EnvExpr("B")>>
    /\ environ["A"] = <<Lit("v")>>
    /\ environ["B"] = <<Lit("v")>>
    /\ env_result = <<Lit("v"), Lit("v")>>

\* ------------------------------------------------------ claims on SpecServer

\* C32: start_app registers the started AppEngine under its app_key only
\* when every plugin named by app_config is already registered; a call
\* that names a plugin that is not registered fails and leaves the
\* registry of app engines unchanged.
C32_RegistersOnlyWithPlugins ==
    [][\A c \in StartCalls :
          /\ (scall[c].pc # "registered" /\ scall'[c].pc = "registered") =>
                /\ \A i \in 1..Len(scall[c].app_config.plugins) :
                      scall[c].app_config.plugins[i] \in DOMAIN app_engines
                /\ DOMAIN app_engines' = DOMAIN app_engines \cup {scall[c].app_config.key}
          /\ (scall[c].pc = "idle" /\ scall'[c].pc # "idle"
                /\ \E i \in 1..Len(scall'[c].app_config.plugins) :
                      scall'[c].app_config.plugins[i] \notin DOMAIN app_engines) =>
                /\ scall'[c].pc = "KeyError"
                /\ app_engines' = app_engines]_vars

\* an application is registered with a plugin registered before it, and a
\* call naming an unregistered plugin has failed
C32_Witness ==
    \E c, d \in StartCalls :
        /\ scall[c].pc = "registered"
        /\ scall[c].app_config.plugins # <<>>
        /\ scall[c].app_config.key # scall[c].app_config.plugins[1]
        /\ scall[d].pc = "KeyError"

\* ------------------------------------------ claims on SpecStream (batch size)

\* C33: a read cycle starts at the first declared queue, reads no further
\* queue once batch_size messages have been collected, and so never
\* processes more than batch_size messages.
C33_CycleWithinBatchSize ==
    spc \in {"read", "gather"} =>
        /\ cycReads[1] = ReadCall(1)
        /\ Len(cycBatch) <= batch_size
        /\ \A i \in 2..Len(cycReads) :
              i - 1 <= Len(cycGot) =>
                  Len(Flatten(SubSeq(cycGot, 1, i - 1))) < batch_size

\* ------------------------------------------ claims on SpecExec (queue labels)

\* the stream a label stands for: the bare name for AUTO, name.label otherwise
StreamOfLabel(name, label) == IF label = AUTO THEN <<name>> ELSE <<name, label>>

\* C34 as stated: every outbound message is written to the stream whose
\* suffix matches the queue label stamped in it, for every combination of
\* upstream queue, configured queue and queue strategy.
C34_StreamMatchesLabel ==
    \A j \in 1..Len(writes) :
        writes[j].stream_name = StreamOfLabel(write_stream[1].name, writes[j].queue)

\* C34 amended: under DROP, and under PROPAGATE for a configured queue
\* AUTO, every outbound message is written to the stream whose suffix
\* matches its queue label; under PROPAGATE for a configured queue c other
\* than AUTO it is written to name.c and carries the upstream queue as its
\* label.
C34_StreamMatchesLabelOrConfigured ==
    \A j \in 1..Len(writes) :
        IF write_stream[1].queue_strategy = "PROPAGATE"
           /\ writes[j].configured_queue # AUTO
        THEN /\ writes[j].stream_name
                  = <<write_stream[1].name, writes[j].configured_queue>>
             /\ writes[j].queue = queue
        ELSE writes[j].stream_name
                  = StreamOfLabel(write_stream[1].name, writes[j].queue)

\* DROP on queues [AUTO, low] with upstream hp: label AUTO on out and label
\* low on out.low
C34_Witness ==
    /\ write_stream = <<[name |-> "out", queues |-> <<AUTO, "low">>,
                         queue_strategy |-> "DROP"]>>
    /\ queue = "hp"
    /\ \E j \in 1..Len(writes) :
          writes[j].stream_name = <<"out">> /\ writes[j].queue = AUTO
    /\ \E j \in 1..Len(writes) :
          writes[j].stream_name = <<"out", "low">> /\ writes[j].queue = "low"

\* ------------------------------------ claims on SpecExec (acknowledgement)

\* C35: when a stream message is acknowledged, every yielded result of its
\* invocation has been written to every configured queue, no write is in
\* flight and none has failed; no write is issued after the acknowledgement.
C35_WritesBeforeAck ==
    /\ [](caller = "acked" =>
            /\ \A i \in 1..Len(wq) : ~InFlight(i) /\ wq[i] # 0
            /\ write_stream # <<>> =>
                  \A v \in NonNull(yielded), k \in 1..NumQueues :
                      \E j \in 1..Len(writes) :
                          /\ writes[j].payload = v
                          /\ writes[j].configured_queue = write_stream[1].queues[k])
    /\ [][caller = "acked" => writes' = writes]_vars

\* a message whose invocation yielded three results on two queues in two
\* flushes is acknowledged
C35_Witness ==
    /\ caller = "acked"
    /\ write_stream # <<>>
    /\ NumQueues = 2
    /\ Cardinality(NonNull(yielded)) = 3
    /\ flushes = 2
    /\ Len(writes) = 6

\* C36: once _process_stream_event has returned an error outcome for a
\* message (the exception that left _execute_event), no outbound write of
\* that message is in flight and none is issued afterwards.
C36_NoWriteAfterError ==
    /\ [](via = "stream" /\ caller = "raised" => \A i \in 1..Len(wq) : ~InFlight(i))
    /\ [][via = "stream" /\ caller = "raised" => writes' = writes]_vars

\* ------------------------------------------- claims on SpecLoops (release)

\* C37: in no interleaving of read_stream, service_loop and stop_event is a
\* token released while it is not held: no call ends with the RuntimeError
\* that Lock.release() raises on a token that is not held.
C37_NoReleaseOfFreeToken ==
    \A c \in Calls : outcome[c] # "RuntimeError"

\* --------------------------------------------- claims on Spec (after stop)

\* C38: once stop() has closed the Stream Manager, no read_stream call
\* issues an ensure_consumer_group or a read on it.
C38_NoOperationAfterClose ==
    [][stream_manager = "closed" =>
          \A c \in Calls :
              ~(/\ pc'[c] \in {"ensure", "read"}
                /\ (pc'[c] # pc[c] \/ qi'[c] # qi[c]))]_vars

\* -------------------------------------------- claims on Spec (stop_event)

\* C39: stop_event(e) on an event whose token is not held raises
\* RuntimeError and leaves every token unchanged; on a held token it
\* releases exactly e's token and changes no other event's token.
C39_StopEventFrame ==
    [][stop_event_outcome' # stop_event_outcome =>
          LET e == stop_event_outcome'[1]
          IN  IF running[e]
              THEN /\ stop_event_outcome'[2] = "returned"
                   /\ running' = [running EXCEPT ![e] = FALSE]
              ELSE /\ stop_event_outcome'[2] = "RuntimeError"
                   /\ running' = running]_vars

\* stop_event has released e1 while e2 is held, and a later stop_event on a
\* free token has raised
C39_Witness ==
    /\ stop_event_outcome # <<>>
    /\ stop_event_outcome[2] = "RuntimeError"
    /\ stop_event_outcome[3] = 1
    /\ \E e \in Events : running[e] /\ e # stop_event_outcome[1]

\* ----------------------------------------------------- claims on SpecService

\* C40: all invocations of one run of service_loop carry the same
\* track.request_id and track.request_ts, those of the root context built
\* once when the loop starts, and each invocation carries a
\* track.operation_id different from that of every other invocation of the
\* run; two runs never share a track.request_id.
C40_ServiceTrackIds ==
    \A r \in ServiceRuns :
        \A i \in 1..Len(svc_invocations[r]) :
            /\ svc_invocations[r][i].request_id = svc_context[r].request_id
            /\ svc_invocations[r][i].request_ts = svc_context[r].request_ts
            /\ \A j \in 1..Len(svc_invocations[r]) :
                  svc_invocations[r][i].request_id = svc_invocations[r][j].request_id
                  /\ svc_invocations[r][i].request_ts = svc_invocations[r][j].request_ts
                  /\ (i # j => svc_invocations[r][i].operation_id
                                    # svc_invocations[r][j].operation_id)
            /\ \A q \in ServiceRuns : \A j \in 1..Len(svc_invocations[q]) :
                  q # r => svc_invocations[r][i].request_id # svc_invocations[q][j].request_id

\* two invocations of one run made at different times, after the root
\* context was built
C40_Witness ==
    \E r \in ServiceRuns :
        /\ Len(svc_invocations[r]) = 2
        /\ svc_invocations[r][1].request_ts < utc_now
        /\ svc_pc[r] = "done"

====
